---- MODULE Spec2Model ----
(***************************************************************************)
(* Synchronization and identifier-assignment engine of Backend_space:      *)
(* SchedulerService (services/schedulerService.js) and NasaSyncService      *)
(* (services/nasaSyncService.js).  Every await of the source is a step      *)
(* boundary; the code between two awaits is one atomic action, as it is on  *)
(* the Node.js event loop.                                                  *)
(***************************************************************************)
EXTENDS Integers, Sequences, FiniteSets, TLC

\* ---------------------------------------------------------------- bounds
\* passes that may be started in one behaviour
MaxPasses == 2
\* rows of the remote catalogue
MaxRemote == 2
\* invocations of executeSyncTask that can be in flight at once
NumSlots == 2
\* failures of the archive, the classifier or MongoDB in one behaviour
MaxFaults == 2

\* candidates of one KOI base confirmed one after another
MaxGroup == 27
\* failed queries and exceptions inside generateKeplerName in one behaviour
MaxQueryFaults == 2
\* revisions of its rows the archive makes in one behaviour
MaxRevisions == 1

Slots == 1..NumSlots

\* ------------------------------------------------------------ value sets
Null == "null"

\* kepoi_name "K00001.01" is kept as its parts around the '.' delimiter;
\* the rows of the archive in the order it serves them
Catalogue == << <<"K00001", "01">>, <<"K00001", "02">>, <<"K00002", "01">>,
               <<"K00002", "02">> >>

\* koi_disposition values the archive serves (Null: the column is missing;
\* "NOT DISPOSITIONED": a value the switch of the pass has no case for)
RemoteDispositions ==
    { "CONFIRMED", "FALSE POSITIVE", "CANDIDATE", "NOT DISPOSITIONED", Null }

\* results of one axios.get issued by fetchCompleteKOIData
FetchOutcomes == { "ok", "timeout", "http_error", "no_data" }

\* results of the axios.post to the inference endpoint; "200" carries a label
PostOutcomes == { "200", "non200", "timeout", "http_error", "network" }

\* response.data.prediction of a 200 answer (Null: the field is missing)
Predictions == { "CONFIRMED", "Confirmed", "FALSE POSITIVE", "false positive",
                 "CANDIDATE", Null }

WeeklyPattern == "0 2 * * 0"
CustomPattern == "0 */2 * * *"

\* the label compared as it came
ToUpperCaseNot(s) == s

\* String.prototype.toUpperCase on the labels that occur
ToUpperCase(s) ==
    CASE s = "Confirmed"      -> "CONFIRMED"
      [] s = "confirmed"      -> "CONFIRMED"
      [] s = "false positive" -> "FALSE POSITIVE"
      [] s = "False Positive" -> "FALSE POSITIVE"
      [] s = "candidate"      -> "CANDIDATE"
      [] s = "Candidate"      -> "CANDIDATE"
      [] OTHER                -> s

\* x?.toUpperCase(): undefined stays undefined
OptUpperCase(s) == IF s = Null THEN Null ELSE ToUpperCase(s)

\* ----------------------------------------------------------------- state
VARIABLES
    syncTask,     \* SchedulerService.syncTask: Null or the armed cron pattern
    armed,        \* the tasks node-cron holds scheduled, by pattern, oldest first
    isRunning,    \* SchedulerService.isRunning
    lastRun,      \* SchedulerService.lastRun: 0 is null, n the start of pass n
    nextRun,      \* SchedulerService.nextRun: Null or "nextSunday02:00"
    passes,       \* passes started so far (the clock of lastRun)
    pass,         \* per in-flight invocation of executeSyncTask: its locals
    remote,       \* rows of the archive's cumulative table
    koi_objects,  \* MongoDB collection koi_objects, in insertion order
    sync_logs,    \* MongoDB collection sync_logs, in insertion order
    response,     \* what the last finished trigger handed to its initiator
    prevPass,     \* summary of the last pass that left Running
    faults,       \* failures of external calls so far
    call          \* the last record-level function run on its own: its
                  \* arguments, what the outside did, what it returned

vars == << syncTask, armed, isRunning, lastRun, nextRun, passes, pass, remote,
           koi_objects, sync_logs, response, prevPass, faults, call >>

\* -------------------------------------------------------------- records
\* stats object of synchronizeKOIData
NewStats(start) ==
    [ startTime |-> start, totalFromNASA |-> 0, newKOIs |-> 0, confirmed |-> 0,
      falsePositive |-> 0, candidates |-> 0, candidatesSent |-> 0,
      candidatesClassifiedByAI |-> 0, candidatesSavedAsFalsePositive |-> 0,
      candidatesSavedAsConfirmed |-> 0, candidatesOtherPrediction |-> 0,
      errors |-> 0, errorDetails |-> << >> ]

\* locals of an invocation that is not in flight
IdleSlot ==
    [ pc |-> "idle", nasaKepOINames |-> << >>,
      newKepOIEntries |-> << >>, idx |-> 0, stats |-> NewStats(0),
      error |-> Null,
      existingAtStart |-> {}, visited |-> << >>, inferCalls |-> << >>,
      saved |-> << >> ]

NoResponse == [ kind |-> Null, result |-> Null, error |-> Null ]

NoPrevPass ==
    [ ok |-> FALSE, remote |-> << >>, new |-> << >>, saved |-> << >>, failed |-> {} ]

\* no function has been run on its own
NoCall == [ op |-> Null ]

\* kepler_name "Kepler-<number> <letter>" is kept as its two parts
KeplerName(number, letter) == << number, letter >>

\* a record without kepler_name
NoName == << >>

\* the kepler_name values the archive carries for confirmed planets
RemoteNames == { KeplerName(1, "b") }

\* koi_disposition and kepler_name of one row of the archive: a confirmed
\* planet carries its kepler_name or none yet, any other row carries none
RowShapes ==
    { [ koi_disposition |-> d, kepler_name |-> NoName ] : d \in RemoteDispositions }
      \cup { [ koi_disposition |-> "CONFIRMED", kepler_name |-> k ] : k \in RemoteNames }

RemoteRow(kepoi_name, shape) ==
    [ kepoi_name |-> kepoi_name, koi_disposition |-> shape.koi_disposition,
      kepler_name |-> shape.kepler_name, IS_AI |-> FALSE ]

\* the archive gives a kepler_name to one row only
DistinctNames(shapes) ==
    \A i, j \in DOMAIN shapes :
      (i # j /\ shapes[i].kepler_name # NoName)
        => shapes[i].kepler_name # shapes[j].kepler_name

\* the first n rows of the catalogue, n <= MaxRemote, with any dispositions
RemoteTables ==
    UNION { { [ i \in 1..n |-> RemoteRow(Catalogue[i], shapes[i]) ] :
                shapes \in { f \in [ 1..n -> RowShapes ] : DistinctNames(f) } } :
            n \in 0..MaxRemote }

\* ------------------------------------------------------------------ Init
Init ==
    /\ syncTask = Null
    /\ armed = << >>
    /\ isRunning = FALSE
    /\ lastRun = 0
    /\ nextRun = Null
    /\ passes = 0
    /\ pass = [ s \in Slots |-> IdleSlot ]
    /\ remote \in RemoteTables
    /\ koi_objects = << >>
    /\ sync_logs = << >>
    /\ response = NoResponse
    /\ prevPass = NoPrevPass
    /\ faults = 0
    /\ call = NoCall

\* ------------------------------------------------------------- scheduler
\* updateNextRunTime: always the next Sunday 02:00 while a task is armed
UpdateNextRunTime(task) == IF task # Null THEN "nextSunday02:00" ELSE Null

\* task.destroy(): node-cron drops the task the reference points to, the
\* one scheduled last under that pattern
Destroy(tasks, task) ==
    LET hits == { i \in 1..Len(tasks) : tasks[i] = task }
    IN  IF task = Null \/ hits = {} THEN tasks
        ELSE LET last == CHOOSE i \in hits : \A j \in hits : j <= i
             IN  SubSeq(tasks, 1, last - 1) \o SubSeq(tasks, last + 1, Len(tasks))

StartWeeklySync ==
    /\ IF syncTask # Null
       THEN UNCHANGED << syncTask, armed, nextRun >>
       ELSE /\ syncTask' = WeeklyPattern
            /\ armed' = Append(armed, WeeklyPattern)
            /\ nextRun' = UpdateNextRunTime(WeeklyPattern)
    /\ UNCHANGED << call, isRunning, lastRun, passes, pass, remote, koi_objects,
                    sync_logs, response, prevPass, faults >>

\* the stop releasing the lock of the pass in flight
StopWeeklySyncReleases ==
    /\ syncTask' = Null
    /\ armed' = Destroy(armed, syncTask)
    /\ isRunning' = FALSE
    /\ UNCHANGED << call, lastRun, nextRun, passes, pass, remote,
                    koi_objects, sync_logs, response, prevPass, faults >>

\* stopWeeklySync: destroy the task and drop the reference
StopWeeklySync ==
    /\ syncTask' = Null
    /\ armed' = Destroy(armed, syncTask)
    /\ UNCHANGED << call, isRunning, lastRun, nextRun, passes, pass, remote,
                    koi_objects, sync_logs, response, prevPass, faults >>

RestartWeeklySync ==
    /\ syncTask' = WeeklyPattern
    /\ armed' = Append(Destroy(armed, syncTask), WeeklyPattern)
    /\ nextRun' = UpdateNextRunTime(WeeklyPattern)
    /\ UNCHANGED << call, isRunning, lastRun, passes, pass, remote, koi_objects,
                    sync_logs, response, prevPass, faults >>

\* setCustomSchedule without its stopHourlySync
SetCustomScheduleNoStop ==
    /\ syncTask' = CustomPattern
    /\ armed' = Append(armed, CustomPattern)
    /\ nextRun' = UpdateNextRunTime(CustomPattern)
    /\ UNCHANGED << call, isRunning, lastRun, passes, pass, remote, koi_objects,
                    sync_logs, response, prevPass, faults >>

SetCustomSchedule ==
    /\ syncTask' = CustomPattern
    /\ armed' = Append(Destroy(armed, syncTask), CustomPattern)
    /\ nextRun' = UpdateNextRunTime(CustomPattern)
    /\ UNCHANGED << call, isRunning, lastRun, passes, pass, remote, koi_objects,
                    sync_logs, response, prevPass, faults >>

\* getStatus: the timezone and the pattern are literals of the source
GetStatus ==
    [ isSchedulerActive |-> syncTask # Null, isSyncRunning |-> isRunning,
      lastRun |-> lastRun, nextRun |-> nextRun, timezone |-> "Europe/Paris",
      cronPattern |-> WeeklyPattern ]

\* -------------------------------------------------------------- triggers
FreeSlots == { s \in Slots : pass[s].pc = "idle" }

LowestFree == CHOOSE s \in FreeSlots : \A t \in FreeSlots : s <= t

\* executeSyncTask past its guard, up to the first await: the flag, lastRun,
\* and synchronizeKOIData up to the await of fetchKepOINamesFromNASA
StartPass ==
    /\ passes < MaxPasses
    /\ FreeSlots # {}
    /\ isRunning' = TRUE
    /\ passes' = passes + 1
    /\ lastRun' = passes + 1
    /\ pass' = [ pass EXCEPT ![LowestFree] =
                   [ IdleSlot EXCEPT
                       !.pc = "fetchNames",
                       !.stats = NewStats(passes + 1),
                       !.existingAtStart =
                           { koi_objects[i].kepoi_name :
                               i \in 1..Len(koi_objects) } ] ]
    /\ UNCHANGED << armed, call, syncTask, nextRun, remote, koi_objects, sync_logs,
                    response, prevPass, faults >>

\* what a trigger that started no pass hands back to its initiator
Answer(caller, result, error) ==
    /\ response' = [ kind |-> caller, result |-> result, error |-> error ]
    /\ UNCHANGED << armed, call, syncTask, isRunning, lastRun, nextRun, passes, pass,
                    remote, koi_objects, sync_logs, prevPass, faults >>

ExecuteSyncTaskUnguarded(caller) == StartPass

ExecuteSyncTaskThrows(caller) ==
    IF isRunning
    THEN Answer(caller, "throw", "A synchronization is already in progress")
    ELSE StartPass

\* executeSyncTask: while a pass runs it logs "skipping" and returns undefined
ExecuteSyncTask(caller) ==
    IF isRunning
    THEN Answer(caller, "undefined", Null)
    ELSE StartPass

RunSyncNowUnguarded == ExecuteSyncTask("manual")

\* runSyncNow, reached from POST /api/sync/run
RunSyncNow ==
    IF isRunning
    THEN Answer("manual", "throw", "A synchronization is already in progress")
    ELSE ExecuteSyncTask("manual")

\* the callback node-cron runs when the armed pattern fires
CronFire ==
    /\ armed # << >>
    /\ ExecuteSyncTask("cron")

\* ------------------------------------------------------------ allocator
\* extractKOIBase: the part of kepoi_name before the first '.'
ExtractKOIBase(kepoi_name) == IF kepoi_name = << >> THEN "" ELSE kepoi_name[1]

\* extractKeplerNumber: the number of "Kepler-<number> ...", 0 standing for
\* null (every caller only tests the result for truthiness)
ExtractKeplerNumber(kepler_name) ==
    IF kepler_name = NoName THEN 0 ELSE kepler_name[1]

\* extractKeplerLetter: the letter after the number, or null
ExtractKeplerLetter(kepler_name) ==
    IF kepler_name = NoName THEN Null ELSE kepler_name[2]

Alphabet == << "b", "c", "d", "e", "f", "g", "h", "i", "j", "k", "l", "m", "n",
               "o", "p", "q", "r", "s", "t", "u", "v", "w", "x", "y", "z" >>

SeqRange(q) == { q[i] : i \in 1..Len(q) }

\* the search starting over at b when every letter is used
GetNextAvailableLetterWraps(usedLetters) ==
    LET free == { i \in 1..Len(Alphabet) : Alphabet[i] \notin SeqRange(usedLetters) }
    IN  IF free = {} THEN Alphabet[1]
        ELSE Alphabet[CHOOSE i \in free : \A j \in free : i <= j]

\* getNextAvailableLetter: first letter of b..z not in usedLetters, else z
GetNextAvailableLetter(usedLetters) ==
    LET free == { i \in 1..Len(Alphabet) : Alphabet[i] \notin SeqRange(usedLetters) }
    IN  IF free = {} THEN "z"
        ELSE Alphabet[CHOOSE i \in free : \A j \in free : i <= j]

\* the regular expression matching the whole kepoi_name against the base
FindSimilarKOIsWholeName(store, koiBase, ok) ==
    IF ok THEN SelectSeq(store, LAMBDA r : r.kepoi_name = << koiBase >>)
    ELSE << >>

\* findSimilarKOIs: documents whose kepoi_name matches ^<koiBase>\. ;
\* a failed query is caught and gives []
FindSimilarKOIs(store, koiBase, ok) ==
    IF ok THEN SelectSeq(store, LAMBDA r : ExtractKOIBase(r.kepoi_name) = koiBase)
    ELSE << >>

RECURSIVE MaxNumberName(_, _, _, _)
\* the forEach of findLastKeplerName: keeps the first name with the largest number
MaxNumberName(results, i, maxNumber, lastKeplerName) ==
    IF i > Len(results) THEN lastKeplerName
    ELSE LET number == ExtractKeplerNumber(results[i].kepler_name)
         IN  IF number # 0 /\ number > maxNumber
             THEN MaxNumberName(results, i + 1, number, results[i].kepler_name)
             ELSE MaxNumberName(results, i + 1, maxNumber, lastKeplerName)

\* the name inserted last instead of the one with the largest number
FindLastKeplerNameLatest(store, ok) ==
    LET named == SelectSeq(store, LAMBDA r : r.kepler_name # NoName)
    IN  IF ~ok \/ named = << >> THEN NoName ELSE named[Len(named)].kepler_name

\* findLastKeplerName: the name with the largest number in the whole
\* collection, null when there is none or the query fails
FindLastKeplerName(store, ok) ==
    IF ~ok THEN NoName
    ELSE MaxNumberName(SelectSeq(store, LAMBDA r : r.kepler_name # NoName),
                       1, 0, NoName)

\* keplerGroups[number]: letters of the similar KOIs named Kepler-<number>
GroupLetters(similarKOIs, number) ==
    LET named == SelectSeq(similarKOIs, LAMBDA r :
                     /\ ExtractKeplerNumber(r.kepler_name) = number
                     /\ ExtractKeplerLetter(r.kepler_name) # Null)
    IN  [ i \in 1..Len(named) |-> ExtractKeplerLetter(named[i].kepler_name) ]

\* Object.keys(keplerGroups): integer keys come in ascending order
RECURSIVE SortedKeys(_)
SortedKeys(S) ==
    IF S = {} THEN << >>
    ELSE LET m == CHOOSE x \in S : \A y \in S : x <= y
         IN  << m >> \o SortedKeys(S \ {m})

\* the first key kept whatever the sizes of the groups
ReduceMostPopularFirst(similarKOIs, keys, i, a) == a

RECURSIVE ReduceMostPopular(_, _, _, _)
\* .reduce((a, b) => keplerGroups[a].length > keplerGroups[b].length ? a : b)
ReduceMostPopular(similarKOIs, keys, i, a) ==
    IF i > Len(keys) THEN a
    ELSE LET b == keys[i]
         IN  ReduceMostPopular(similarKOIs, keys, i + 1,
                 IF Len(GroupLetters(similarKOIs, a))
                      > Len(GroupLetters(similarKOIs, b))
                 THEN a ELSE b)

\* generateKeplerName: case A reuses the most populated number of the group,
\* case B opens number max + 1 with letter b
GenerateKeplerName(kepoi_name, store, simOk, lastOk) ==
    LET koiBase     == ExtractKOIBase(kepoi_name)
        similarKOIs == FindSimilarKOIs(store, koiBase, simOk)
        numbers     == { ExtractKeplerNumber(similarKOIs[i].kepler_name) :
                           i \in 1..Len(similarKOIs) } \ {0}
        keys        == SortedKeys(numbers)
    IN  IF Len(similarKOIs) > 0 /\ numbers # {}
        THEN LET mostPopularNumber ==
                     ReduceMostPopular(similarKOIs, keys, 2, keys[1])
                 usedLetters == GroupLetters(similarKOIs, mostPopularNumber)
             IN  KeplerName(mostPopularNumber, GetNextAvailableLetter(usedLetters))
        ELSE LET lastKeplerName == FindLastKeplerName(store, lastOk)
             IN  IF lastKeplerName # NoName
                 THEN KeplerName(ExtractKeplerNumber(lastKeplerName) + 1, "b")
                 ELSE KeplerName(1, "b")

\* ----------------------------------------------------- store and archive
\* fetchKepOINamesFromNASA: SELECT kepoi_name, koi_disposition of every row
NasaProjection(rows) ==
    [ i \in 1..Len(rows) |-> [ kepoi_name |-> rows[i].kepoi_name,
                               koi_disposition |-> rows[i].koi_disposition ] ]

\* fetchCompleteKOIData: data[0] of the rows WHERE kepoi_name = '<name>'
FetchCompleteKOIData(rows, kepoi_name) ==
    LET hits == SelectSeq(rows, LAMBDA r : r.kepoi_name = kepoi_name)
    IN  hits[1]

\* the message of the error fetchCompleteKOIData rethrows
FetchErrorMessage(fetch) ==
    CASE fetch = "timeout"    -> "timeout of 30000ms exceeded"
      [] fetch = "http_error" -> "Request failed with status code 500"
      [] OTHER                -> "No data found"

ExistingKepOINamesFirst(store) ==
    { store[i].kepoi_name : i \in { j \in 1..Len(store) : j = 1 } }

\* getExistingKepOINames: the Set of the kepoi_name of every stored document
ExistingKepOINames(store) ==
    { store[i].kepoi_name : i \in { j \in 1..Len(store) : store[j].kepoi_name # << >> } }

NewKepOIEntriesUnfiltered(nasaKepOINames, existingKepOINames) ==
    SelectSeq(nasaKepOINames, LAMBDA entry : entry.kepoi_name # << >>)

\* the filter keeping only the entries the archive has decided
NewKepOIEntriesDecided(nasaKepOINames, existingKepOINames) ==
    SelectSeq(nasaKepOINames, LAMBDA entry :
        /\ entry.kepoi_name # << >>
        /\ entry.kepoi_name \notin existingKepOINames
        /\ OptUpperCase(entry.koi_disposition) # "CANDIDATE")

\* the filter of synchronizeKOIData, step 3
NewKepOIEntries(nasaKepOINames, existingKepOINames) ==
    SelectSeq(nasaKepOINames, LAMBDA entry :
        /\ entry.kepoi_name # << >>
        /\ entry.kepoi_name \notin existingKepOINames)

\* the insert issued a second time
SaveKOIToMongoDBTwice(store, koiData) == Append(Append(store, koiData), koiData)

\* the write as an upsert keyed by the KOI base: the documents of the same
\* base are replaced by the new one
SaveKOIToMongoDBUpsertBase(store, koiData) ==
    Append(SelectSeq(store, LAMBDA d :
               ExtractKOIBase(d.kepoi_name) # ExtractKOIBase(koiData.kepoi_name)),
           koiData)

\* saveKOIToMongoDB: insertOne of the document
SaveKOIToMongoDB(store, koiData) == Append(store, koiData)

SaveSyncStatsTwice(logs, stats, ok) ==
    IF ok THEN Append(Append(logs, stats), stats) ELSE logs

\* saveSyncStats: insertOne into sync_logs, a failure is caught and logged
SaveSyncStats(logs, stats, ok) == IF ok THEN Append(logs, stats) ELSE logs

\* ---------------------------------------------------------------- gateway
\* timeout of the axios.get of fetchCompleteKOIData, in seconds
FetchTimeout == 30
\* timeout of the axios.post of sendCandidateToInferAPI, in seconds
PostTimeout == 10

\* seconds a full-field fetch and a POST that end before their timeout take
FetchDurations == { 5 }
PostDurations == { 1 }

\* response.data.probability in percent; Missing: the field is absent
Missing == -1
Probabilities == { Missing, 30, 100 }

\* response.data.probability || 0
OrZero(probability) == IF probability = Missing THEN 0 ELSE probability

\* a result object with success: false
InferFailure(error, status, duration) ==
    [ success |-> FALSE, action |-> Null, error |-> error,
      kepler_name |-> NoName, status |-> status, duration |-> duration ]

\* a result object with success: true
InferSuccess(action, keplerName, duration) ==
    [ success |-> TRUE, action |-> action, error |-> Null,
      kepler_name |-> keplerName, status |-> "200", duration |-> duration ]

\* the catch returning the failure without its error text
InferCatchBare(kind, message, duration) == InferFailure(Null, "unknown", duration)

\* the catch of sendCandidateToInferAPI: the error of the full-field fetch or
\* of the POST, classified by code/message
InferCatch(kind, message, duration) ==
    IF kind = "timeout" THEN InferFailure("Timeout 10s exceeded", "unknown", duration)
    ELSE IF kind = "http_error" THEN InferFailure("HTTP 500", "500", duration)
    ELSE InferFailure(message, "unknown", duration)

\* what the outside world does during one sendCandidateToInferAPI: outcome
\* and duration of the full-field fetch and of the POST, label and probability
\* of a 200 answer, and whether the insert and the two queries of the
\* allocator succeed
External(fetch, fetchTime, post, postTime, label, probability, save) ==
    [ fetch |-> fetch, fetchTime |-> fetchTime, post |-> post,
      postTime |-> postTime, label |-> label, probability |-> probability,
      saveOk |-> save = "ok", simOk |-> TRUE, lastOk |-> TRUE ]

\* the confidence stored as the probability whatever the verdict
ConfidenceScoreDirect(prediction, probability) == probability

\* confidenceScore: 1 - probability for FALSE POSITIVE, the probability for
\* CONFIRMED (in percent)
ConfidenceScore(prediction, probability) ==
    IF prediction = "FALSE POSITIVE" THEN 100 - probability ELSE probability

\* the document the gateway inserts: the fetched row with the verdict
EnrichedDataUnnamed(fullKoiData, disposition, keplerName, probability, confidenceScore) ==
    [ kepoi_name |-> fullKoiData.kepoi_name, koi_disposition |-> disposition,
      kepler_name |-> fullKoiData.kepler_name, IS_AI |-> TRUE,
      confidence_score |-> confidenceScore,
      ai_prediction |-> [ probability |-> probability,
                          confidence_score |-> confidenceScore ] ]

EnrichedData(fullKoiData, disposition, keplerName, probability, confidenceScore) ==
    [ kepoi_name |-> fullKoiData.kepoi_name, koi_disposition |-> disposition,
      kepler_name |-> keplerName, IS_AI |-> TRUE,
      confidence_score |-> confidenceScore,
      ai_prediction |-> [ probability |-> probability,
                          confidence_score |-> confidenceScore ] ]

\* sendCandidateToInferAPI: the result object, the collection afterwards and
\* the requests the inference endpoint received
SendCandidateToInferAPI(kepoi_name, rows, store, ext) ==
    LET fetch  == ext.fetch
        post   == ext.post
        saveOk == ext.saveOk
        simOk  == ext.simOk
        lastOk == ext.lastOk
        \* Date.now() - startTime in the catch of a failed fetch, and after
        \* the POST has returned or failed
        fetched  == ext.fetchTime
        duration == ext.fetchTime + ext.postTime
    IN
    IF fetch # "ok"
    THEN [ result |-> InferCatch(fetch, "Connection error: No data found", fetched),
           store |-> store, posts |-> 0 ]
    ELSE IF post \in { "timeout", "http_error", "network" }
    THEN [ result |-> InferCatch(post, "Connection error: network", duration),
           store |-> store, posts |-> 1 ]
    ELSE IF post # "200"
    THEN [ result |-> InferFailure("HTTP non-200 response", "204", duration),
           store |-> store, posts |-> 1 ]
    ELSE
    LET fullKoiData == FetchCompleteKOIData(rows, kepoi_name)
        prediction  == OptUpperCase(ext.label)
        probability == OrZero(ext.probability)
    IN  IF prediction = "FALSE POSITIVE"
        THEN LET confidenceScore == ConfidenceScore(prediction, probability)
             IN  IF saveOk
                 THEN [ result |-> InferSuccess("saved_as_false_positive", NoName, duration),
                        store  |-> SaveKOIToMongoDB(store,
                                     EnrichedData(fullKoiData, "FALSE POSITIVE",
                                         fullKoiData.kepler_name, ext.probability,
                                         confidenceScore)),
                        posts  |-> 1 ]
                 ELSE [ result |-> InferFailure("Save error", "200", duration),
                        store |-> store, posts |-> 1 ]
        ELSE IF prediction = "CONFIRMED"
        THEN LET confidenceScore == ConfidenceScore(prediction, probability)
                 keplerName == GenerateKeplerName(kepoi_name, store, simOk, lastOk)
             IN  IF saveOk
                 THEN [ result |-> InferSuccess("saved_as_confirmed", keplerName, duration),
                        store  |-> SaveKOIToMongoDB(store,
                                     EnrichedData(fullKoiData, "CONFIRMED",
                                         keplerName, ext.probability,
                                         confidenceScore)),
                        posts  |-> 1 ]
                 ELSE [ result |-> InferFailure("Save error (CONFIRMED)", "200", duration),
                        store |-> store, posts |-> 1 ]
        ELSE [ result |-> InferSuccess("prediction_not_supported", NoName, duration),
               store |-> store, posts |-> 1 ]

\* ------------------------------------------------------------------ pass
\* the outcomes an external call can have: it succeeds, or, while the
\* failure budget lasts, it fails in one of the ways of kinds
Outcomes(kinds) == { "ok" } \cup (IF faults < MaxFaults THEN kinds ELSE {})

Fault(outcome) == faults' = faults + (IF outcome = "ok" THEN 0 ELSE 1)

Inc(stats, field) == [ stats EXCEPT ![field] = @ + 1 ]

\* the failure pushed by the iteration and again by its catch
AddErrorTwice(stats, detail) ==
    [ stats EXCEPT !.errors = @ + 1,
                   !.errorDetails = Append(Append(@, detail), detail) ]

AddError(stats, detail) ==
    [ stats EXCEPT !.errors = @ + 1, !.errorDetails = Append(@, detail) ]

\* the identities for which stats records a failed gateway call
InferFailed(stats) ==
    { stats.errorDetails[i].kepoi_name :
        i \in { j \in 1..Len(stats.errorDetails) :
                  stats.errorDetails[j].type = "infer_api_error" } }

ErrorDetail(kepoi_name, type, error) ==
    [ kepoi_name |-> kepoi_name, type |-> type, error |-> error ]

\* the outer catch of synchronizeKOIData followed by the catch of
\* executeSyncTask, up to its await of saveSyncStats(errorStats)
SyncThrow(s, message) ==
    pass' = [ pass EXCEPT
                ![s].pc = "saveErrorStats",
                ![s].error = message,
                ![s].stats = AddError(@, ErrorDetail(<< >>, "sync_error", message)) ]

\* synchronizeKOIData step 1: the await of fetchKepOINamesFromNASA returns
FetchKepOINamesFromNASA(s) ==
    /\ pass[s].pc = "fetchNames"
    /\ \E fetch \in Outcomes({ "http_error" }) :
         /\ Fault(fetch)
         /\ IF fetch = "ok"
            THEN pass' = [ pass EXCEPT
                             ![s].pc = "getExisting",
                             ![s].nasaKepOINames = NasaProjection(remote),
                             ![s].stats.totalFromNASA = Len(remote) ]
            ELSE SyncThrow(s, "Could not retrieve NASA kepoi_names")
    /\ UNCHANGED << armed, call, syncTask, isRunning, lastRun, nextRun, passes, remote,
                    koi_objects, sync_logs, response, prevPass >>

\* synchronizeKOIData steps 2 and 3: the await of getExistingKepOINames
\* returns, the new entries are filtered, an empty list returns the stats
GetExistingKepOINames(s) ==
    /\ pass[s].pc = "getExisting"
    /\ \E find \in Outcomes({ "db_error" }) :
         /\ Fault(find)
         /\ IF find = "ok"
            THEN LET new == NewKepOIEntries(pass[s].nasaKepOINames,
                                            ExistingKepOINames(koi_objects))
                 IN  pass' = [ pass EXCEPT
                                 ![s].pc = IF Len(new) = 0 THEN "saveStats"
                                           ELSE "loop",
                                 ![s].newKepOIEntries = new,
                                 ![s].idx = 1,
                                 ![s].stats.newKOIs = Len(new) ]
            ELSE SyncThrow(s, "MongoDB find failed")
    /\ UNCHANGED << armed, call, syncTask, isRunning, lastRun, nextRun, passes, remote,
                    koi_objects, sync_logs, response, prevPass >>

\* the loop leaving at the first iteration that counted an error
LoopStepBreaks(s, stats, store, calls) ==
    LET p          == pass[s]
        kepoi_name == p.newKepOIEntries[p.idx].kepoi_name
    IN  /\ koi_objects' = store
        /\ pass' = [ pass EXCEPT
                       ![s].stats = stats,
                       ![s].idx = @ + 1,
                       ![s].pc = IF p.idx = Len(p.newKepOIEntries)
                                    \/ stats.errors > p.stats.errors
                                 THEN "saveStats" ELSE "loop",
                       ![s].visited = Append(@, kepoi_name),
                       ![s].inferCalls = @ \o [ k \in 1..calls |-> kepoi_name ],
                       ![s].saved = IF Len(store) > Len(koi_objects)
                                    THEN Append(@, kepoi_name) ELSE @ ]

\* the loop going over the same entry again after an iteration that
\* counted an error
LoopStepRepeats(s, stats, store, calls) ==
    LET p          == pass[s]
        kepoi_name == p.newKepOIEntries[p.idx].kepoi_name
        failed     == stats.errors > p.stats.errors
    IN  /\ koi_objects' = store
        /\ pass' = [ pass EXCEPT
                       ![s].stats = stats,
                       ![s].idx = IF failed THEN @ ELSE @ + 1,
                       ![s].pc = IF p.idx = Len(p.newKepOIEntries) /\ ~failed
                                 THEN "saveStats" ELSE "loop",
                       ![s].visited = Append(@, kepoi_name),
                       ![s].inferCalls = @ \o [ k \in 1..calls |-> kepoi_name ],
                       ![s].saved = IF Len(store) > Len(koi_objects)
                                    THEN Append(@, kepoi_name) ELSE @ ]

\* the pass after one iteration of the for loop over newKepOIEntries
LoopStep(s, stats, store, calls) ==
    LET p          == pass[s]
        kepoi_name == p.newKepOIEntries[p.idx].kepoi_name
    IN  /\ koi_objects' = store
        /\ pass' = [ pass EXCEPT
                       ![s].stats = stats,
                       ![s].idx = @ + 1,
                       ![s].pc = IF p.idx = Len(p.newKepOIEntries)
                                 THEN "saveStats" ELSE "loop",
                       ![s].visited = Append(@, kepoi_name),
                       ![s].inferCalls = @ \o [ k \in 1..calls |-> kepoi_name ],
                       ![s].saved = IF Len(store) > Len(koi_objects)
                                    THEN Append(@, kepoi_name) ELSE @ ]

\* the decided case with a failed full-field fetch escaping the loop
ProcessDecidedFatal(s, kepoi_name, disposition) ==
    \E fetch \in Outcomes(FetchOutcomes \ { "ok" }) :
      IF fetch # "ok"
      THEN /\ Fault(fetch)
           /\ SyncThrow(s, FetchErrorMessage(fetch))
           /\ UNCHANGED koi_objects
      ELSE \E save \in Outcomes({ "db_error" }) :
             /\ Fault(save)
             /\ IF save # "ok"
                THEN LoopStep(s, AddError(pass[s].stats, ErrorDetail(kepoi_name,
                                 "processing_error", "MongoDB insert failed")),
                              koi_objects, 0)
                ELSE LoopStep(s, Inc(pass[s].stats,
                                     IF disposition = "CONFIRMED"
                                     THEN "confirmed" ELSE "falsePositive"),
                              SaveKOIToMongoDB(koi_objects,
                                  FetchCompleteKOIData(remote, kepoi_name)),
                              0)

\* the decided case with the name of a confirmed row taken from the allocator
ProcessDecidedAllocates(s, kepoi_name, disposition) ==
    \E fetch \in Outcomes(FetchOutcomes \ { "ok" }) :
      IF fetch # "ok"
      THEN /\ Fault(fetch)
           /\ LoopStep(s, AddError(pass[s].stats, ErrorDetail(kepoi_name,
                          "processing_error", FetchErrorMessage(fetch))),
                       koi_objects, 0)
      ELSE \E save \in Outcomes({ "db_error" }) :
             /\ Fault(save)
             /\ IF save # "ok"
                THEN LoopStep(s, AddError(pass[s].stats, ErrorDetail(kepoi_name,
                                 "processing_error", "MongoDB insert failed")),
                              koi_objects, 0)
                ELSE LoopStep(s, Inc(pass[s].stats,
                                     IF disposition = "CONFIRMED"
                                     THEN "confirmed" ELSE "falsePositive"),
                              SaveKOIToMongoDB(koi_objects,
                                  IF disposition = "CONFIRMED"
                                  THEN [ FetchCompleteKOIData(remote, kepoi_name)
                                           EXCEPT !.kepler_name =
                                             GenerateKeplerName(kepoi_name,
                                                 koi_objects, TRUE, TRUE) ]
                                  ELSE FetchCompleteKOIData(remote, kepoi_name)),
                              0)

\* case 'CONFIRMED' / 'FALSE POSITIVE': fetch the full row and insert it;
\* an exception lands in the catch of the iteration
ProcessDecided(s, kepoi_name, disposition) ==
    \E fetch \in Outcomes(FetchOutcomes \ { "ok" }) :
      IF fetch # "ok"
      THEN /\ Fault(fetch)
           /\ LoopStep(s, AddError(pass[s].stats, ErrorDetail(kepoi_name,
                          "processing_error", FetchErrorMessage(fetch))),
                       koi_objects, 0)
      ELSE \E save \in Outcomes({ "db_error" }) :
             /\ Fault(save)
             /\ IF save # "ok"
                THEN LoopStep(s, AddError(pass[s].stats, ErrorDetail(kepoi_name,
                                 "processing_error", "MongoDB insert failed")),
                              koi_objects, 0)
                ELSE LoopStep(s, Inc(pass[s].stats,
                                     IF disposition = "CONFIRMED"
                                     THEN "confirmed" ELSE "falsePositive"),
                              SaveKOIToMongoDB(koi_objects,
                                  FetchCompleteKOIData(remote, kepoi_name)),
                              0)

\* the error detail pushed for a result with success: false
InferErrorDetail(kepoi_name, infer) ==
    [ kepoi_name |-> kepoi_name, type |-> "infer_api_error",
      error |-> infer.error, status |-> infer.status,
      duration |-> infer.duration ]

\* the counters of the gateway moved without the global ones
CountCandidateGatewayOnly(s, kepoi_name, sent) ==
    LET infer  == sent.result
        stats1 == Inc(pass[s].stats, "candidates")
        stats2 == Inc(Inc(stats1, "candidatesSent"), "candidatesClassifiedByAI")
    IN  IF infer.success
        THEN LoopStep(s,
               CASE infer.action = "saved_as_false_positive" ->
                      Inc(stats2, "candidatesSavedAsFalsePositive")
                 [] infer.action = "saved_as_confirmed" ->
                      Inc(stats2, "candidatesSavedAsConfirmed")
                 [] infer.action \in { "prediction_received",
                                       "prediction_not_supported" } ->
                      Inc(stats2, "candidatesOtherPrediction")
                 [] OTHER -> stats2,
               sent.store, sent.posts)
        ELSE LoopStep(s, AddError(stats1, InferErrorDetail(kepoi_name, infer)),
                      sent.store, sent.posts)

\* a label that is no verdict counted as a failure of the gateway
CountCandidateOtherIsError(s, kepoi_name, sent) ==
    LET infer  == sent.result
        stats1 == Inc(pass[s].stats, "candidates")
        stats2 == Inc(Inc(stats1, "candidatesSent"), "candidatesClassifiedByAI")
    IN  IF infer.success
        THEN LoopStep(s,
               CASE infer.action = "saved_as_false_positive" ->
                      Inc(Inc(stats2, "candidatesSavedAsFalsePositive"),
                          "falsePositive")
                 [] infer.action = "saved_as_confirmed" ->
                      Inc(Inc(stats2, "candidatesSavedAsConfirmed"), "confirmed")
                 [] infer.action \in { "prediction_received",
                                       "prediction_not_supported" } ->
                      AddError(stats2, ErrorDetail(kepoi_name, "infer_api_error",
                                                   "Prediction not supported"))
                 [] OTHER -> stats2,
               sent.store, sent.posts)
        ELSE LoopStep(s, AddError(stats1, InferErrorDetail(kepoi_name, infer)),
                      sent.store, sent.posts)

\* candidatesSent moved before the result of the gateway is looked at
CountCandidateSentFirst(s, kepoi_name, sent) ==
    LET infer  == sent.result
        stats1 == Inc(Inc(pass[s].stats, "candidates"), "candidatesSent")
        stats2 == Inc(stats1, "candidatesClassifiedByAI")
    IN  IF infer.success
        THEN LoopStep(s,
               CASE infer.action = "saved_as_false_positive" ->
                      Inc(Inc(stats2, "candidatesSavedAsFalsePositive"),
                          "falsePositive")
                 [] infer.action = "saved_as_confirmed" ->
                      Inc(Inc(stats2, "candidatesSavedAsConfirmed"), "confirmed")
                 [] infer.action \in { "prediction_received",
                                       "prediction_not_supported" } ->
                      Inc(stats2, "candidatesOtherPrediction")
                 [] OTHER -> stats2,
               sent.store, sent.posts)
        ELSE LoopStep(s, AddError(stats1, InferErrorDetail(kepoi_name, infer)),
                      sent.store, sent.posts)

\* case 'CANDIDATE': the candidate goes through sendCandidateToInferAPI and
\* the counters follow its result
CountCandidate(s, kepoi_name, sent) ==
    LET infer  == sent.result
        stats1 == Inc(pass[s].stats, "candidates")
        stats2 == Inc(Inc(stats1, "candidatesSent"), "candidatesClassifiedByAI")
    IN  IF infer.success
        THEN LoopStep(s,
               CASE infer.action = "saved_as_false_positive" ->
                      Inc(Inc(stats2, "candidatesSavedAsFalsePositive"),
                          "falsePositive")
                 [] infer.action = "saved_as_confirmed" ->
                      Inc(Inc(stats2, "candidatesSavedAsConfirmed"), "confirmed")
                 [] infer.action \in { "prediction_received",
                                       "prediction_not_supported" } ->
                      Inc(stats2, "candidatesOtherPrediction")
                 [] OTHER -> stats2,
               sent.store, sent.posts)
        ELSE LoopStep(s, AddError(stats1, InferErrorDetail(kepoi_name, infer)),
                      sent.store, sent.posts)

\* the seconds a request with that outcome takes
Durations(outcome, timeout, durations) ==
    IF outcome = "timeout" THEN { timeout } ELSE durations

\* the candidate case with the outcomes of the external calls drawn
ProcessCandidate(s, kepoi_name) ==
    \E fetch \in Outcomes(FetchOutcomes \ { "ok" }) :
    \E fetchTime \in Durations(fetch, FetchTimeout, FetchDurations) :
      IF fetch # "ok"
      THEN /\ Fault(fetch)
           /\ CountCandidate(s, kepoi_name,
                  SendCandidateToInferAPI(kepoi_name, remote, koi_objects,
                      External(fetch, fetchTime, "200", 0, Null, Missing, "ok")))
      ELSE \E post \in Outcomes(PostOutcomes \ { "200" }) :
           \E postTime \in Durations(post, PostTimeout, PostDurations) :
        IF post # "ok"
        THEN /\ Fault(post)
             /\ CountCandidate(s, kepoi_name,
                    SendCandidateToInferAPI(kepoi_name, remote, koi_objects,
                        External("ok", fetchTime, post, postTime, Null, Missing, "ok")))
        ELSE \E label \in Predictions :
          IF OptUpperCase(label) \notin { "CONFIRMED", "FALSE POSITIVE" }
          THEN /\ Fault("ok")
               /\ CountCandidate(s, kepoi_name,
                      SendCandidateToInferAPI(kepoi_name, remote, koi_objects,
                          External("ok", fetchTime, "200", postTime, label, Missing, "ok")))
          ELSE \E probability \in Probabilities :
               \E save \in Outcomes({ "db_error" }) :
                 /\ Fault(save)
                 /\ CountCandidate(s, kepoi_name,
                        SendCandidateToInferAPI(kepoi_name, remote, koi_objects,
                            External("ok", fetchTime, "200", postTime, label, probability, save)))

\* the switch with the confirmed rows falling into the candidate case
ProcessEntryConfirmedToGateway(s) ==
    /\ pass[s].pc = "loop"
    /\ LET kepOIEntry  == pass[s].newKepOIEntries[pass[s].idx]
           disposition == OptUpperCase(kepOIEntry.koi_disposition)
           kepoi_name  == kepOIEntry.kepoi_name
       IN  CASE disposition = "FALSE POSITIVE" ->
                  ProcessDecided(s, kepoi_name, disposition)
             [] disposition \in { "CANDIDATE", "CONFIRMED" } ->
                  ProcessCandidate(s, kepoi_name)
             [] OTHER ->
                  /\ Fault("ok")
                  /\ LoopStep(s, AddError(pass[s].stats, ErrorDetail(kepoi_name,
                                 "unknown_disposition", "Unknown status")),
                              koi_objects, 0)
    /\ UNCHANGED << armed, call, syncTask, isRunning, lastRun, nextRun, passes, remote,
                    sync_logs, response, prevPass >>

\* the switch with the default case sending the entry to the gateway
ProcessEntryDefaultToGateway(s) ==
    /\ pass[s].pc = "loop"
    /\ LET kepOIEntry  == pass[s].newKepOIEntries[pass[s].idx]
           disposition == OptUpperCase(kepOIEntry.koi_disposition)
           kepoi_name  == kepOIEntry.kepoi_name
       IN  CASE disposition \in { "CONFIRMED", "FALSE POSITIVE" } ->
                  ProcessDecided(s, kepoi_name, disposition)
             [] OTHER ->
                  ProcessCandidate(s, kepoi_name)
    /\ UNCHANGED << armed, call, syncTask, isRunning, lastRun, nextRun, passes, remote,
                    sync_logs, response, prevPass >>

\* one iteration of the for loop over newKepOIEntries (its awaits touch no
\* state another handler reads before the iteration ends)
ProcessEntry(s) ==
    /\ pass[s].pc = "loop"
    /\ LET kepOIEntry  == pass[s].newKepOIEntries[pass[s].idx]
           disposition == OptUpperCase(kepOIEntry.koi_disposition)
           kepoi_name  == kepOIEntry.kepoi_name
       IN  CASE disposition \in { "CONFIRMED", "FALSE POSITIVE" } ->
                  ProcessDecided(s, kepoi_name, disposition)
             [] disposition = "CANDIDATE" ->
                  ProcessCandidate(s, kepoi_name)
             [] OTHER ->
                  /\ Fault("ok")
                  /\ LoopStep(s, AddError(pass[s].stats, ErrorDetail(kepoi_name,
                                 "unknown_disposition", "Unknown status")),
                              koi_objects, 0)
    /\ UNCHANGED << armed, call, syncTask, isRunning, lastRun, nextRun, passes, remote,
                    sync_logs, response, prevPass >>

\* executeSyncTask after synchronizeKOIData returned: the await of
\* saveSyncStats(stats) returns, updateNextRunTime, return stats, finally
SaveStatsAndReturn(s) ==
    /\ pass[s].pc = "saveStats"
    /\ \E insert \in Outcomes({ "db_error" }) :
         /\ Fault(insert)
         /\ sync_logs' = SaveSyncStats(sync_logs, pass[s].stats, insert = "ok")
    /\ nextRun' = UpdateNextRunTime(syncTask)
    /\ isRunning' = FALSE
    /\ response' = [ kind |-> "pass", result |-> "stats", error |-> Null ]
    /\ prevPass' = [ ok |-> TRUE, remote |-> pass[s].nasaKepOINames,
                     new |-> pass[s].newKepOIEntries, saved |-> pass[s].saved,
                     failed |-> InferFailed(pass[s].stats) ]
    /\ pass' = [ pass EXCEPT ![s] = IdleSlot ]
    /\ UNCHANGED << armed, call, syncTask, lastRun, passes, remote, koi_objects >>

\* the failure path without the finally block: the flag stays set
SaveErrorStatsNoFinally(s) ==
    /\ pass[s].pc = "saveErrorStats"
    /\ \E insert \in Outcomes({ "db_error" }) :
         /\ Fault(insert)
         /\ sync_logs' = SaveSyncStats(sync_logs,
                             [ startTime |-> lastRun, error |-> pass[s].error,
                               success |-> FALSE ], insert = "ok")
    /\ response' = [ kind |-> "pass", result |-> "throw",
                     error |-> pass[s].error ]
    /\ prevPass' = [ ok |-> FALSE, remote |-> pass[s].nasaKepOINames,
                     new |-> pass[s].newKepOIEntries, saved |-> pass[s].saved,
                     failed |-> InferFailed(pass[s].stats) ]
    /\ pass' = [ pass EXCEPT ![s] = IdleSlot ]
    /\ UNCHANGED << armed, call, syncTask, isRunning, lastRun, nextRun, passes, remote,
                    koi_objects >>

\* the failure path with the error swallowed instead of rethrown
SaveErrorStatsAndSwallow(s) ==
    /\ pass[s].pc = "saveErrorStats"
    /\ \E insert \in Outcomes({ "db_error" }) :
         /\ Fault(insert)
         /\ sync_logs' = SaveSyncStats(sync_logs,
                             [ startTime |-> lastRun, error |-> pass[s].error,
                               success |-> FALSE ], insert = "ok")
    /\ isRunning' = FALSE
    /\ response' = [ kind |-> "pass", result |-> "stats", error |-> Null ]
    /\ prevPass' = [ ok |-> FALSE, remote |-> pass[s].nasaKepOINames,
                     new |-> pass[s].newKepOIEntries, saved |-> pass[s].saved,
                     failed |-> InferFailed(pass[s].stats) ]
    /\ pass' = [ pass EXCEPT ![s] = IdleSlot ]
    /\ UNCHANGED << armed, call, syncTask, lastRun, nextRun, passes, remote, koi_objects >>

\* the catch of executeSyncTask: the await of saveSyncStats(errorStats)
\* returns, the error is rethrown, finally
SaveErrorStatsAndThrow(s) ==
    /\ pass[s].pc = "saveErrorStats"
    /\ \E insert \in Outcomes({ "db_error" }) :
         /\ Fault(insert)
         /\ sync_logs' = SaveSyncStats(sync_logs,
                             [ startTime |-> lastRun, error |-> pass[s].error,
                               success |-> FALSE ], insert = "ok")
    /\ isRunning' = FALSE
    /\ response' = [ kind |-> "pass", result |-> "throw",
                     error |-> pass[s].error ]
    /\ prevPass' = [ ok |-> FALSE, remote |-> pass[s].nasaKepOINames,
                     new |-> pass[s].newKepOIEntries, saved |-> pass[s].saved,
                     failed |-> InferFailed(pass[s].stats) ]
    /\ pass' = [ pass EXCEPT ![s] = IdleSlot ]
    /\ UNCHANGED << armed, call, syncTask, lastRun, nextRun, passes, remote, koi_objects >>

\* --------------------------------------------------------- specification
Next ==
    \/ StartWeeklySync
    \/ StopWeeklySync
    \/ RestartWeeklySync
    \/ SetCustomSchedule
    \/ RunSyncNow
    \/ CronFire
    \/ \E s \in Slots : FetchKepOINamesFromNASA(s)
    \/ \E s \in Slots : GetExistingKepOINames(s)
    \/ \E s \in Slots : ProcessEntry(s)
    \/ \E s \in Slots : SaveStatsAndReturn(s)
    \/ \E s \in Slots : SaveErrorStatsAndThrow(s)

Spec == Init /\ [][Next]_vars

\* a pass in flight moves on: every external call it awaits returns or times
\* out, and the event loop then resumes the pass
PassStep(s) ==
    \/ FetchKepOINamesFromNASA(s)
    \/ GetExistingKepOINames(s)
    \/ ProcessEntry(s)
    \/ SaveStatsAndReturn(s)
    \/ SaveErrorStatsAndThrow(s)

FairSpec == Spec /\ \A s \in Slots : WF_vars(PassStep(s))

\* ------------------------------------------- record-level specification
\* every way the outside can behave during one sendCandidateToInferAPI: the
\* full-field fetch fails, or the POST fails, or the endpoint answers 200
\* with a label the gateway does not store, or with a verdict and the insert
\* succeeds or fails
Externals ==
    UNION { { External(fetch, fetchTime, "200", 0, Null, Missing, "ok") :
                fetchTime \in Durations(fetch, FetchTimeout, FetchDurations) } :
            fetch \in FetchOutcomes \ { "ok" } }
    \cup
    UNION { { External("ok", fetchTime, post, postTime, Null, Missing, "ok") :
                fetchTime \in FetchDurations,
                postTime \in Durations(post, PostTimeout, PostDurations) } :
            post \in PostOutcomes \ { "200" } }
    \cup
    { External("ok", fetchTime, "200", postTime, label, probability, save) :
        fetchTime \in FetchDurations, postTime \in PostDurations,
        label \in Predictions, probability \in Probabilities,
        save \in { "ok", "db_error" } }

\* the rows of the archive not yet in the collection, the entries a pass
\* finds new
NewRows == { i \in 1..Len(remote) :
               remote[i].kepoi_name \notin ExistingKepOINames(koi_objects) }

\* sendCandidateToInferAPI run on its own for a new CANDIDATE row
ClassifyCandidate ==
    \E i \in NewRows : \E ext \in Externals :
      LET kepoi_name == remote[i].kepoi_name
          sent == SendCandidateToInferAPI(kepoi_name, remote, koi_objects, ext)
      IN  /\ OptUpperCase(remote[i].koi_disposition) = "CANDIDATE"
          /\ koi_objects' = sent.store
          /\ call' = [ op |-> "sendCandidateToInferAPI",
                       kepoi_name |-> kepoi_name, ext |-> ext,
                       store |-> koi_objects, result |-> sent.result,
                       posts |-> sent.posts ]
          /\ UNCHANGED << syncTask, armed, isRunning, lastRun, nextRun, passes,
                        pass,
                          remote, sync_logs, response, prevPass, faults >>

\* case 'CONFIRMED' / 'FALSE POSITIVE' run on its own for a new decided row:
\* fetchCompleteKOIData, then saveKOIToMongoDB
SaveDecided ==
    \E i \in NewRows :
      LET kepoi_name == remote[i].kepoi_name
      IN  /\ OptUpperCase(remote[i].koi_disposition)
               \in { "CONFIRMED", "FALSE POSITIVE" }
          /\ koi_objects' = SaveKOIToMongoDB(koi_objects,
                                FetchCompleteKOIData(remote, kepoi_name))
          /\ call' = [ op |-> "saveKOIToMongoDB", kepoi_name |-> kepoi_name,
                       store |-> koi_objects ]
          /\ UNCHANGED << syncTask, armed, isRunning, lastRun, nextRun, passes,
                        pass,
                          remote, sync_logs, response, prevPass, faults >>

RecordNext ==
    \/ ClassifyCandidate
    \/ SaveDecided

\* the record-level functions applied one after another to the new rows of
\* an archive table, as the loop of a pass applies them
RecordSpec == Init /\ [][RecordNext]_vars

\* ----------------------------------------------- allocator specification
\* the KOI base whose candidates are named, and another base in the store
GroupBase == "K00003"
OtherBase == "K00009"

Suffixes ==
    << "01", "02", "03", "04", "05", "06", "07", "08", "09", "10", "11", "12",
       "13", "14", "15", "16", "17", "18", "19", "20", "21", "22", "23", "24",
       "25", "26", "27", "28", "29", "30" >>

\* Date.now() in milliseconds at the start of a behaviour
Epoch == 1000

\* a document stored earlier: named by the archive, or without a name
StoredDoc(base, n, kepler_name) ==
    [ kepoi_name |-> << base, Suffixes[n] >>,
      koi_disposition |-> IF kepler_name = NoName THEN "FALSE POSITIVE"
                          ELSE "CONFIRMED",
      kepler_name |-> kepler_name, IS_AI |-> FALSE ]

StoredDocs(base, names) ==
    [ i \in 1..Len(names) |-> StoredDoc(base, i, names[i]) ]

\* Kepler-<number> with the first n letters of b..z
Letters(number, n) == [ i \in 1..n |-> KeplerName(number, Alphabet[i]) ]

\* the names the documents of the other base carry
OtherNamings ==
    { << >>,
      << KeplerName(1, "b") >>,
      << KeplerName(3, "b"), KeplerName(5, "c") >>,
      << KeplerName(5, "c"), KeplerName(3, "b") >> }

\* the names the stored members of the group carry (NoName: a stored member
\* without a name)
GroupNamings ==
    { << >>,
      << NoName >>,
      << KeplerName(2, "b") >>,
      << KeplerName(2, "b"), KeplerName(2, "d") >>,
      << KeplerName(2, "b"), KeplerName(2, "c"), KeplerName(4, "b") >>,
      << KeplerName(2, "b"), KeplerName(4, "b"), KeplerName(4, "c") >>,
      << KeplerName(2, "b"), KeplerName(4, "b") >>,
      << KeplerName(4, "b"), KeplerName(2, "b") >>,
      Letters(2, 24),
      Letters(2, 25) }

\* the candidates of the group the archive lists after the stored members:
\* a whole group over the smaller stores that hold none of its members, two
\* candidates otherwise
GroupCandidates(other, naming) ==
    LET first == Len(naming) + 1
        last  == IF naming = << >> /\ Len(other) <= 1
                 THEN MaxGroup ELSE Len(naming) + 2
    IN  [ i \in 1..(last - first + 1) |->
            RemoteRow(<< GroupBase, Suffixes[first + i - 1] >>,
                      [ koi_disposition |-> "CANDIDATE", kepler_name |-> NoName ]) ]

AllocInit ==
    /\ syncTask = Null
    /\ armed = << >>
    /\ isRunning = FALSE
    /\ lastRun = 0
    /\ nextRun = Null
    /\ passes = 0
    /\ pass = [ s \in Slots |-> IdleSlot ]
    /\ \E other \in OtherNamings : \E naming \in GroupNamings :
         /\ koi_objects = StoredDocs(OtherBase, other) \o StoredDocs(GroupBase, naming)
         /\ remote = GroupCandidates(other, naming)
    /\ sync_logs = << >>
    /\ response = NoResponse
    /\ prevPass = NoPrevPass
    /\ faults = 0
    /\ call = [ op |-> Null, now |-> Epoch ]

\* the catch of generateKeplerName: Kepler-<Date.now()> b
FallbackName(now) == KeplerName(now, "b")

\* generateKeplerName with its try/catch: raised is an exception that
\* reaches the catch of generateKeplerName (a failed query does not: it is
\* caught inside findSimilarKOIs and findLastKeplerName)
GenerateKeplerNameAt(kepoi_name, store, simOk, lastOk, raised, now) ==
    IF raised THEN FallbackName(now)
    ELSE GenerateKeplerName(kepoi_name, store, simOk, lastOk)

\* the CONFIRMED branch of sendCandidateToInferAPI for the first candidate
\* not stored yet: the name is generated, the enriched document inserted
ConfirmNext ==
    LET existing == ExistingKepOINames(koi_objects)
        new == { m \in 1..Len(remote) : remote[m].kepoi_name \notin existing }
        i == CHOOSE m \in new : \A n \in new : m <= n
        kepoi_name == remote[i].kepoi_name
    IN  /\ new # {}
        /\ \E query \in { "ok", "similar_failed", "last_failed", "raised" } :
           \E tick \in { 0, 1 } :
             LET simOk  == query # "similar_failed"
                 lastOk == query # "last_failed"
                 raised == query = "raised"
                 now == IF raised THEN call.now + tick ELSE call.now
                 name == GenerateKeplerNameAt(kepoi_name, koi_objects, simOk,
                                              lastOk, raised, now)
             IN  /\ query # "ok" => faults < MaxQueryFaults
                 /\ ~raised => tick = 0
                 /\ faults' = faults + (IF query # "ok" THEN 1 ELSE 0)
                 /\ koi_objects' = SaveKOIToMongoDB(koi_objects,
                        EnrichedData(FetchCompleteKOIData(remote, kepoi_name),
                            "CONFIRMED", name, 100,
                            ConfidenceScore("CONFIRMED", OrZero(100))))
                 /\ call' = [ op |-> "generateKeplerName",
                              kepoi_name |-> kepoi_name, store |-> koi_objects,
                              simOk |-> simOk, lastOk |-> lastOk,
                              raised |-> raised, now |-> now,
                              name |-> koi_objects'[Len(koi_objects')].kepler_name ]
        /\ UNCHANGED << syncTask, armed, isRunning, lastRun, nextRun, passes,
                        pass,
                        remote, sync_logs, response, prevPass >>

AllocNext == ConfirmNext

\* the candidates of one KOI base confirmed by the endpoint one after
\* another, over a store that already holds named documents
AllocSpec == AllocInit /\ [][AllocNext]_vars

\* ----------------------------------------------- iteration specification
\* the invocation whose loop is followed await by await
LoopSlot == 1

\* an iteration of the for loop that has not begun
PendingIteration == [ step |-> "pending", via |-> Null, doc |-> << >> ]

\* a pass of a manual trigger at the head of its for loop, over an empty
\* collection: every row of the archive is a new entry
LoopInit ==
    /\ syncTask = Null
    /\ armed = << >>
    /\ isRunning = TRUE
    /\ lastRun = 1
    /\ nextRun = Null
    /\ passes = 1
    /\ remote \in RemoteTables \ { << >> }
    /\ pass = [ s \in Slots |->
                  IF s = LoopSlot
                  THEN [ IdleSlot EXCEPT
                           !.pc = "loop",
                           !.nasaKepOINames = NasaProjection(remote),
                           !.newKepOIEntries =
                               NewKepOIEntries(NasaProjection(remote), {}),
                           !.idx = 1,
                           !.stats = [ NewStats(1) EXCEPT
                                         !.totalFromNASA = Len(remote),
                                         !.newKOIs = Len(remote) ] ]
                  ELSE IdleSlot ]
    /\ koi_objects = << >>
    /\ sync_logs = << >>
    /\ response = NoResponse
    /\ prevPass = NoPrevPass
    /\ faults = 0
    /\ call = [ op |-> "synchronizeKOIData",
                iter |-> [ i \in 1..Len(remote) |-> PendingIteration ] ]

\* the iteration started whether or not the one before it has returned
NextIterationNoAwait(iter, idx) ==
    IF \E i \in DOMAIN iter : iter[i].step = "pending"
    THEN CHOOSE i \in DOMAIN iter :
           /\ iter[i].step = "pending"
           /\ \A j \in 1..(i - 1) : iter[j].step # "pending"
    ELSE Len(iter) + 1

\* the iteration the for loop runs next: its body awaits every call it
\* makes, so the loop is at the entry after the last one that returned
NextIteration(iter, idx) == idx

\* iteration i suspends at the await of step
Await(i, step, via, doc, stats, calls) ==
    /\ call' = [ call EXCEPT !.iter[i] = [ step |-> step, via |-> via, doc |-> doc ] ]
    /\ pass' = [ pass EXCEPT
                   ![LoopSlot].stats = stats,
                   ![LoopSlot].inferCalls =
                       @ \o [ k \in 1..calls |->
                                pass[LoopSlot].newKepOIEntries[i].kepoi_name ] ]
    /\ UNCHANGED koi_objects

\* iteration i reaches the end of the loop body
Complete(i, stats, store) ==
    LET p == pass[LoopSlot]
    IN  /\ call' = [ call EXCEPT !.iter[i] =
                       [ step |-> "done", via |-> call.iter[i].via, doc |-> << >> ] ]
        /\ koi_objects' = store
        /\ pass' = [ pass EXCEPT
                       ![LoopSlot].stats = stats,
                       ![LoopSlot].idx = @ + 1,
                       ![LoopSlot].pc = IF p.idx = Len(p.newKepOIEntries)
                                        THEN "saveStats" ELSE "loop",
                       ![LoopSlot].visited = Append(@, p.newKepOIEntries[i].kepoi_name),
                       ![LoopSlot].saved =
                           IF Len(store) > Len(koi_objects)
                           THEN Append(@, p.newKepOIEntries[i].kepoi_name) ELSE @ ]

\* the loop enters its next iteration: the switch up to the first await
BeginIteration ==
    LET p == pass[LoopSlot]
        i == NextIteration(call.iter, p.idx)
    IN  /\ p.pc = "loop"
        /\ i \in 1..Len(p.newKepOIEntries)
        /\ call.iter[i].step = "pending"
        /\ LET disposition == OptUpperCase(p.newKepOIEntries[i].koi_disposition)
               kepoi_name  == p.newKepOIEntries[i].kepoi_name
           IN  CASE disposition \in { "CONFIRMED", "FALSE POSITIVE" } ->
                      Await(i, "fetchCompleteKOIData", "direct", << >>, p.stats, 0)
                 [] disposition = "CANDIDATE" ->
                      Await(i, "fetchCompleteKOIData", "gateway", << >>,
                            Inc(p.stats, "candidates"), 0)
                 [] OTHER ->
                      Complete(i, AddError(p.stats, ErrorDetail(kepoi_name,
                                   "unknown_disposition", "Unknown status")),
                               koi_objects)
        /\ UNCHANGED << syncTask, armed, isRunning, lastRun, nextRun, passes,
                        remote, sync_logs, response, prevPass, faults >>

\* the axios.get of fetchCompleteKOIData returns to iteration i: the direct
\* case goes on to its insert, the gateway to its POST
FetchReturns(i) ==
    LET p          == pass[LoopSlot]
        kepoi_name == p.newKepOIEntries[i].kepoi_name
    IN  /\ p.pc = "loop"
        /\ call.iter[i].step = "fetchCompleteKOIData"
        /\ \E fetch \in Outcomes(FetchOutcomes \ { "ok" }) :
           \E fetchTime \in Durations(fetch, FetchTimeout, FetchDurations) :
             /\ Fault(fetch)
             /\ IF fetch = "ok"
                THEN IF call.iter[i].via = "direct"
                     THEN Await(i, "saveKOIToMongoDB", "direct",
                                FetchCompleteKOIData(remote, kepoi_name), p.stats, 0)
                     ELSE Await(i, "axios.post", "gateway",
                                FetchCompleteKOIData(remote, kepoi_name), p.stats, 1)
                ELSE IF call.iter[i].via = "direct"
                     THEN Complete(i, AddError(p.stats, ErrorDetail(kepoi_name,
                                       "processing_error", FetchErrorMessage(fetch))),
                                   koi_objects)
                     ELSE Complete(i, AddError(p.stats, InferErrorDetail(kepoi_name,
                                       SendCandidateToInferAPI(kepoi_name, remote,
                                           koi_objects,
                                           External(fetch, fetchTime, "200", 0,
                                                    Null, Missing, "ok")).result)),
                                   koi_objects)
        /\ UNCHANGED << syncTask, armed, isRunning, lastRun, nextRun, passes,
                        remote, sync_logs, response, prevPass >>

\* the axios.post of sendCandidateToInferAPI returns to iteration i (the
\* seconds the calls took are left at 0: no step of the loop reads them)
PostReturns(i) ==
    LET p          == pass[LoopSlot]
        kepoi_name == p.newKepOIEntries[i].kepoi_name
        fullKoiData == call.iter[i].doc
    IN  /\ p.pc = "loop"
        /\ call.iter[i].step = "axios.post"
        /\ \E post \in Outcomes(PostOutcomes \ { "200" }) :
           \E postTime \in Durations(post, PostTimeout, PostDurations) :
             /\ Fault(post)
             /\ IF post # "ok"
                THEN Complete(i, AddError(p.stats, InferErrorDetail(kepoi_name,
                                  SendCandidateToInferAPI(kepoi_name, remote,
                                      koi_objects,
                                      External("ok", 0, post, postTime,
                                               Null, Missing, "ok")).result)),
                              koi_objects)
                ELSE \E label \in Predictions : \E probability \in Probabilities :
                       LET prediction == OptUpperCase(label)
                           confidenceScore ==
                               ConfidenceScore(prediction, OrZero(probability))
                       IN  CASE prediction = "FALSE POSITIVE" ->
                                  Await(i, "saveKOIToMongoDB", "gateway",
                                        EnrichedData(fullKoiData, "FALSE POSITIVE",
                                            fullKoiData.kepler_name, probability,
                                            confidenceScore),
                                        p.stats, 0)
                             [] prediction = "CONFIRMED" ->
                                  Await(i, "generateKeplerName", "gateway",
                                        EnrichedData(fullKoiData, "CONFIRMED",
                                            NoName, probability, confidenceScore),
                                        p.stats, 0)
                             [] OTHER ->
                                  \* the probability of such an answer is not read
                                  /\ probability = Missing
                                  /\ Complete(i,
                                       Inc(Inc(Inc(p.stats, "candidatesSent"),
                                               "candidatesClassifiedByAI"),
                                           "candidatesOtherPrediction"),
                                       koi_objects)
        /\ UNCHANGED << syncTask, armed, isRunning, lastRun, nextRun, passes,
                        remote, sync_logs, response, prevPass >>

\* generateKeplerName returns to iteration i: its two queries read the
\* collection as it stands
NameReturns(i) ==
    LET p          == pass[LoopSlot]
        kepoi_name == p.newKepOIEntries[i].kepoi_name
    IN  /\ p.pc = "loop"
        /\ call.iter[i].step = "generateKeplerName"
        /\ Await(i, "saveKOIToMongoDB", "gateway",
                 [ call.iter[i].doc EXCEPT !.kepler_name =
                     GenerateKeplerName(kepoi_name, koi_objects, TRUE, TRUE) ],
                 p.stats, 0)
        /\ UNCHANGED << syncTask, armed, isRunning, lastRun, nextRun, passes,
                        remote, sync_logs, response, prevPass, faults >>

\* the insert of saveKOIToMongoDB returns to iteration i and the counters
\* of the case follow
SaveReturns(i) ==
    LET p          == pass[LoopSlot]
        kepoi_name == p.newKepOIEntries[i].kepoi_name
        doc        == call.iter[i].doc
        confirmed  == doc.koi_disposition = "CONFIRMED"
    IN  /\ p.pc = "loop"
        /\ call.iter[i].step = "saveKOIToMongoDB"
        /\ \E save \in Outcomes({ "db_error" }) :
             /\ Fault(save)
             /\ IF save = "ok"
                THEN Complete(i,
                       IF call.iter[i].via = "direct"
                       THEN Inc(p.stats, IF confirmed THEN "confirmed"
                                         ELSE "falsePositive")
                       ELSE Inc(Inc(Inc(Inc(p.stats, "candidatesSent"),
                                        "candidatesClassifiedByAI"),
                                    IF confirmed THEN "candidatesSavedAsConfirmed"
                                    ELSE "candidatesSavedAsFalsePositive"),
                                IF confirmed THEN "confirmed" ELSE "falsePositive"),
                       SaveKOIToMongoDB(koi_objects, doc))
                ELSE Complete(i,
                       IF call.iter[i].via = "direct"
                       THEN AddError(p.stats, ErrorDetail(kepoi_name,
                                "processing_error", "MongoDB insert failed"))
                       ELSE AddError(p.stats, InferErrorDetail(kepoi_name,
                                SendCandidateToInferAPI(kepoi_name, remote,
                                    koi_objects,
                                    External("ok", 0, "200", 0, doc.koi_disposition,
                                             Missing, "db_error")).result)),
                       koi_objects)
        /\ UNCHANGED << syncTask, armed, isRunning, lastRun, nextRun, passes,
                        remote, sync_logs, response, prevPass >>

LoopNext ==
    \/ BeginIteration
    \/ \E i \in 1..MaxRemote : i \in DOMAIN call.iter /\ FetchReturns(i)
    \/ \E i \in 1..MaxRemote : i \in DOMAIN call.iter /\ PostReturns(i)
    \/ \E i \in 1..MaxRemote : i \in DOMAIN call.iter /\ NameReturns(i)
    \/ \E i \in 1..MaxRemote : i \in DOMAIN call.iter /\ SaveReturns(i)

\* the for loop of one pass followed from await to await
LoopSpec == LoopInit /\ [][LoopNext]_vars

\* --------------------------------------------- live archive specification
\* the archive revises one of its rows between two requests: the cumulative
\* table is live, and every fetch reads it as it stands at that moment (call
\* counts the revisions made so far)
ArchiveRevises ==
    /\ call.revisions < MaxRevisions
    /\ call' = [ call EXCEPT !.revisions = @ + 1 ]
    /\ \E i \in DOMAIN remote : \E shape \in RowShapes :
         LET rows == [ remote EXCEPT ![i] = RemoteRow(remote[i].kepoi_name, shape) ]
         IN  /\ rows # remote
             /\ \A j, k \in DOMAIN rows :
                  (j # k /\ rows[j].kepler_name # NoName)
                    => rows[j].kepler_name # rows[k].kepler_name
             /\ remote' = rows
    /\ UNCHANGED << syncTask, armed, isRunning, lastRun, nextRun, passes, pass,
                    koi_objects, sync_logs, response, prevPass, faults >>

\* the state after construction, with no revision of the archive made yet
ArchiveInit ==
    /\ syncTask = Null
    /\ armed = << >>
    /\ isRunning = FALSE
    /\ lastRun = 0
    /\ nextRun = Null
    /\ passes = 0
    /\ pass = [ s \in Slots |-> IdleSlot ]
    /\ remote \in RemoteTables
    /\ koi_objects = << >>
    /\ sync_logs = << >>
    /\ response = NoResponse
    /\ prevPass = NoPrevPass
    /\ faults = 0
    /\ call = [ op |-> "revise", revisions |-> 0 ]

ArchiveNext ==
    \/ RunSyncNow
    \/ ArchiveRevises
    \/ \E s \in Slots : FetchKepOINamesFromNASA(s)
    \/ \E s \in Slots : GetExistingKepOINames(s)
    \/ \E s \in Slots : ProcessEntry(s)
    \/ \E s \in Slots : SaveStatsAndReturn(s)
    \/ \E s \in Slots : SaveErrorStatsAndThrow(s)

\* manual passes over an archive whose rows are revised while they run
ArchiveSpec == ArchiveInit /\ [][ArchiveNext]_vars

\* ------------------------------------------- settling endpoint specification
\* the state after construction, with the inference endpoint not yet settled
\* (call records whether it is); one external call may fail before it is
RetryInit ==
    /\ syncTask = Null
    /\ armed = << >>
    /\ isRunning = FALSE
    /\ lastRun = 0
    /\ nextRun = Null
    /\ passes = 0
    /\ pass = [ s \in Slots |-> IdleSlot ]
    /\ remote \in RemoteTables
    /\ koi_objects = << >>
    /\ sync_logs = << >>
    /\ response = NoResponse
    /\ prevPass = NoPrevPass
    /\ faults = MaxFaults - 1
    /\ call = [ op |-> "endpoint", settled |-> FALSE ]

\* from this moment on the archive, MongoDB and the inference endpoint
\* answer every request, and the endpoint answers with a verdict
EndpointSettles ==
    /\ ~call.settled
    /\ call' = [ call EXCEPT !.settled = TRUE ]
    /\ UNCHANGED << syncTask, armed, isRunning, lastRun, nextRun, passes, pass,
                    remote, koi_objects, sync_logs, response, prevPass, faults >>

\* a step of the pass of invocation s; once the endpoint has settled no
\* external call of the step fails and no answer carries another label
RetryPassStep(s) ==
    /\ PassStep(s)
    /\ call.settled
         => /\ faults' = faults
            /\ pass[s].pc = "loop"
                 => pass'[s].stats.candidatesOtherPrediction
                      = pass[s].stats.candidatesOtherPrediction

\* POST /api/sync/run while no pass is in flight
ManualTrigger == ~isRunning /\ RunSyncNow

RetryNext ==
    \/ RunSyncNow
    \/ EndpointSettles
    \/ \E s \in Slots : RetryPassStep(s)

\* manual passes over an endpoint that settles at some moment; a pass in
\* flight moves on and, while the count of passes allows, the next one is
\* triggered
RetrySpec ==
    /\ RetryInit
    /\ [][RetryNext]_vars
    /\ WF_vars(ManualTrigger)
    /\ WF_vars(\E s \in Slots : RetryPassStep(s))

\* ------------------------------------------------------ checked properties
Running == { s \in Slots : pass[s].pc # "idle" }

ConflictMessage == "A synchronization is already in progress"

\* the step hands an answer to the initiator of a trigger that started no pass
Answered(caller) == response' # response /\ response'.kind = caller

\* C1: in every reachable state at most one synchronization pass is Running,
\* whatever the interleaving of cron triggers and manual runSyncNow triggers,
\* and the flag isRunning is set exactly while that pass is in flight.
C1_SingleFlight ==
    /\ Cardinality(Running) <= 1
    /\ isRunning <=> Running # {}

\* a cron trigger has fired while a pass was in flight, and the pass goes on
C1_Witness ==
    /\ Cardinality(Running) = 1
    /\ response.kind = "cron"
    /\ syncTask # Null

\* C2: a manual runSyncNow invoked while a pass is Running throws the conflict
\* error and does nothing else: no invocation is created or advanced (so no
\* remote fetch), koi_objects and sync_logs keep their contents, isRunning and
\* lastRun keep their values.
C2_ManualConflict ==
    [][ (isRunning /\ Answered("manual"))
          => /\ response'.result = "throw"
             /\ response'.error = ConflictMessage
             /\ UNCHANGED << pass, passes, koi_objects, sync_logs, isRunning,
                             lastRun, nextRun, syncTask, faults >> ]_vars

\* a manual trigger got the conflict error while a pass was in its loop
C2_Witness ==
    /\ isRunning
    /\ response = [ kind |-> "manual", result |-> "throw",
                    error |-> ConflictMessage ]
    /\ \E s \in Slots : pass[s].pc = "loop" /\ pass[s].idx = 2

\* C3 as stated: every attempt to start a pass while one is Running, manual or
\* periodic, is rejected with a Conflict-class error surfaced to its initiator.
C3_Original ==
    response.kind \in { "manual", "cron" }
        => response.result = "throw" /\ response.error = ConflictMessage

\* C3 amended: an attempt to start a pass while one is Running starts nothing
\* and is never queued; the manual trigger gets the conflict error, the
\* periodic trigger is skipped silently (its callback returns undefined, no
\* error reaches node-cron).
C3_RejectedNotQueued ==
    [][ \A caller \in { "manual", "cron" } :
          Answered(caller)
            => /\ isRunning
               /\ UNCHANGED << pass, passes, isRunning, lastRun, koi_objects,
                               sync_logs >>
               /\ caller = "manual" => /\ response'.result = "throw"
                                       /\ response'.error = ConflictMessage
               /\ caller = "cron" => /\ response'.result = "undefined"
                                     /\ response'.error = Null ]_vars

\* the periodic trigger was skipped while a pass was waiting for the archive
C3_Witness ==
    /\ response = [ kind |-> "cron", result |-> "undefined", error |-> Null ]
    /\ \E s \in Slots : pass[s].pc = "fetchNames"
    /\ passes = 1

\* the step on which a pass leaves Running
LeavesRunning == isRunning /\ ~isRunning'

\* C4 as stated: every pass that entered Running has appended exactly one
\* Pass Record by the time it has left Running (rejected and skipped
\* triggers append none), so with no pass in flight there are as many
\* records as passes started.
C4_Original == ~isRunning => Len(sync_logs) = passes

\* C4 amended: sync_logs changes only on the step a pass leaves Running, on
\* the success and on the failure path alike; that step appends exactly one
\* Pass Record when the insert of saveSyncStats succeeds and none when it
\* fails (the failure is caught and only logged).
C4_OneRecordPerPass ==
    [][ IF LeavesRunning
        THEN /\ faults' = faults => Len(sync_logs') = Len(sync_logs) + 1
             /\ faults' # faults => sync_logs' = sync_logs
             /\ SubSeq(sync_logs', 1, Len(sync_logs)) = sync_logs
        ELSE sync_logs' = sync_logs ]_vars

\* two passes have left Running, the first failed and the second succeeded,
\* each left its record, and a trigger was rejected meanwhile
C4_Witness ==
    /\ ~isRunning
    /\ passes = 2
    /\ Len(sync_logs) = 2
    /\ "error" \in DOMAIN sync_logs[1]
    /\ "error" \notin DOMAIN sync_logs[2]

\* C5: every pass that enters Running eventually leaves it, and when it has
\* left, on either exit, the flag is back to idle.
C5_PassTerminates == isRunning ~> (~isRunning /\ Running = {})

\* a pass was accepted after the previous one had failed
C5_Witness ==
    /\ isRunning
    /\ passes = 2
    /\ ~prevPass.ok
    /\ response.result = "throw"

\* the positions of the remote entries whose identity was not stored when
\* the pass started
AbsentAtStart(s) ==
    { j \in 1..Len(pass[s].nasaKepOINames) :
        pass[s].nasaKepOINames[j].kepoi_name \notin pass[s].existingAtStart }

\* C6: once the differ has run, newKepOIEntries is exactly the remote entries
\* whose identity was absent from the store at pass start, in remote order:
\* the i-th new entry is the remote entry at the i-th absent position.
C6_DifferExact ==
    \A s \in Slots :
      pass[s].pc \in { "loop", "saveStats" }
        => /\ pass[s].nasaKepOINames = NasaProjection(remote)
           /\ Len(pass[s].newKepOIEntries) = Cardinality(AbsentAtStart(s))
           /\ \A j \in AbsentAtStart(s) :
                pass[s].newKepOIEntries[
                    Cardinality({ k \in AbsentAtStart(s) : k <= j })]
                  = pass[s].nasaKepOINames[j]

\* of two remote entries the first was stored before the pass, the second is
\* the only new one
C6_Witness ==
    \E s \in Slots :
      /\ pass[s].pc = "loop"
      /\ Len(pass[s].nasaKepOINames) = 2
      /\ pass[s].existingAtStart = { pass[s].nasaKepOINames[1].kepoi_name }
      /\ pass[s].newKepOIEntries = << pass[s].nasaKepOINames[2] >>

\* C7 as stated: after a pass has completed, the next pass over the same
\* remote data computes zero new records.
C7_Original ==
    \A s \in Slots :
      (pass[s].pc \in { "loop", "saveStats" } /\ prevPass.ok)
        => pass[s].newKepOIEntries = << >>

\* C7 amended: after a pass has returned its statistics, the next pass over
\* the same remote data computes as new exactly the entries the first pass
\* found new and did not persist (gateway failure, unsupported verdict,
\* unknown status, processing error), in the same order; zero when the first
\* pass persisted every new entry.
C7_SecondPassRediscovers ==
    \A s \in Slots :
      (pass[s].pc \in { "loop", "saveStats" } /\ prevPass.ok)
        => pass[s].newKepOIEntries =
             SelectSeq(prevPass.new,
                       LAMBDA e : e.kepoi_name \notin SeqRange(prevPass.saved))

\* the first pass persisted one of its two new entries, the second pass
\* finds the other one again
C7_Witness ==
    \E s \in Slots :
      /\ pass[s].pc = "loop"
      /\ prevPass.ok
      /\ Len(prevPass.new) = 2
      /\ Len(prevPass.saved) = 1
      /\ Len(pass[s].newKepOIEntries) = 1

\* the step on which invocation s leaves through the catch of executeSyncTask
Aborts(s) == pass[s].pc = "saveErrorStats" /\ pass'[s].pc = "idle"

FailedRecord(s) ==
    [ startTime |-> lastRun, error |-> pass[s].error, success |-> FALSE ]

\* C8 as stated: when the identity+status fetch or the read of the stored
\* identities fails, the error reaches the caller, nothing was persisted, the
\* gateway was never called, and a Failed Pass Record with the message is
\* appended.
C8_Original ==
    [][ \A s \in Slots :
          Aborts(s)
            => /\ response'.result = "throw"
               /\ sync_logs' = Append(sync_logs, FailedRecord(s)) ]_vars

\* C8 amended: when the identity+status fetch or the read of the stored
\* identities fails, the pass aborts: the error reaches the caller, the pass
\* has persisted no record and never called the gateway, and the Failed Pass
\* Record with the message is appended unless the insert into sync_logs fails
\* too, in which case that failure is only logged and no record is appended.
C8_DifferFailureAborts ==
    [][ \A s \in Slots :
          Aborts(s)
            => /\ pass[s].error \in { "Could not retrieve NASA kepoi_names",
                                      "MongoDB find failed" }
               /\ response'.result = "throw"
               /\ response'.error = pass[s].error
               /\ pass[s].saved = << >>
               /\ pass[s].visited = << >>
               /\ pass[s].inferCalls = << >>
               /\ koi_objects' = koi_objects
               /\ ~isRunning'
               /\ sync_logs' = IF faults' = faults
                               THEN Append(sync_logs, FailedRecord(s))
                               ELSE sync_logs ]_vars

\* the read of the stored identities failed in the second pass: the caller
\* got the error and the Failed record is the last of the log
C8_Witness ==
    /\ ~isRunning
    /\ passes = 2
    /\ response = [ kind |-> "pass", result |-> "throw",
                    error |-> "MongoDB find failed" ]
    /\ Len(sync_logs) = 2
    /\ sync_logs[2] = [ startTime |-> 2, error |-> "MongoDB find failed",
                        success |-> FALSE ]
    /\ Len(koi_objects) > 0

\* C9: a failure while processing one new record never halts the pass: the
\* pass leaves through the catch only before the loop, and when
\* synchronizeKOIData returns its statistics every new entry has been
\* processed, in order, whatever errors were counted on the way.
C9_RecordFailureIsolated ==
    \A s \in Slots :
      /\ pass[s].pc = "saveErrorStats"
           => pass[s].newKepOIEntries = << >> /\ pass[s].visited = << >>
      /\ pass[s].pc = "saveStats"
           => pass[s].visited = [ i \in 1..Len(pass[s].newKepOIEntries) |->
                                    pass[s].newKepOIEntries[i].kepoi_name ]
      /\ pass[s].pc = "loop"
           => /\ pass[s].idx <= Len(pass[s].newKepOIEntries)
              /\ Len(pass[s].visited) = pass[s].idx - 1

\* the first of two new records failed, the second was still processed and
\* persisted, and the pass is returning its statistics
C9_Witness ==
    \E s \in Slots :
      /\ pass[s].pc = "saveStats"
      /\ Len(pass[s].newKepOIEntries) = 2
      /\ pass[s].stats.errors = 1
      /\ pass[s].stats.errorDetails[1].kepoi_name
           = pass[s].newKepOIEntries[1].kepoi_name
      /\ pass[s].saved = << pass[s].newKepOIEntries[2].kepoi_name >>

\* the errors recorded for a failed full-field fetch: processing_error for a
\* decided record, "Connection error" from the gateway's catch
FullFetchErrors ==
    { FetchErrorMessage(f) : f \in FetchOutcomes \ { "ok" } }
      \cup { "Connection error: No data found" }

\* the step records a failed full-field fetch for invocation s
FetchFailureRecorded(s) ==
    LET before == pass[s].stats.errorDetails
        after  == pass'[s].stats.errorDetails
    IN  /\ pass[s].pc = "loop"
        /\ Len(after) = Len(before) + 1
        /\ after[Len(after)].error \in FullFetchErrors

\* C10 as stated: a failed full-field fetch is fatal to the pass, so no pass
\* that recorded one goes on or returns its statistics.
C10_Original ==
    \A s \in Slots :
      pass[s].pc \in { "loop", "saveStats" }
        => \A i \in 1..Len(pass[s].stats.errorDetails) :
             pass[s].stats.errorDetails[i].error \notin FullFetchErrors

\* C10 amended: a failed full-field fetch is not fatal to the pass: it is
\* counted as one error with an error detail for that identity (type
\* processing_error for a decided record, infer_api_error for a candidate),
\* the record is not persisted, and the pass goes on with the next record or
\* returns its statistics.
C10_FetchFailureNotFatal ==
    [][ \A s \in Slots :
          FetchFailureRecorded(s)
            => LET detail == pass'[s].stats.errorDetails[
                                 Len(pass'[s].stats.errorDetails)]
                   entry  == pass[s].newKepOIEntries[pass[s].idx]
               IN  /\ detail.kepoi_name = entry.kepoi_name
                   /\ detail.type = IF OptUpperCase(entry.koi_disposition)
                                         = "CANDIDATE"
                                    THEN "infer_api_error"
                                    ELSE "processing_error"
                   /\ pass'[s].stats.errors = pass[s].stats.errors + 1
                   /\ koi_objects' = koi_objects
                   /\ pass'[s].idx = pass[s].idx + 1
                   /\ pass'[s].pc = IF pass[s].idx = Len(pass[s].newKepOIEntries)
                                    THEN "saveStats" ELSE "loop"
                   /\ isRunning' ]_vars

\* the full-field fetch of a decided record failed, and the pass goes on
\* with the second record
C10_Witness ==
    \E s \in Slots :
      /\ pass[s].pc = "loop"
      /\ pass[s].idx = 2
      /\ pass[s].stats.errors = 1
      /\ pass[s].stats.errorDetails[1] =
           [ kepoi_name |-> pass[s].newKepOIEntries[1].kepoi_name,
             type |-> "processing_error", error |-> "No data found" ]

\* the entry invocation s is about to process
CurrentEntry(s) == pass[s].newKepOIEntries[pass[s].idx]

\* invocation s hands its current entry to sendCandidateToInferAPI
DispatchesCandidate(s) ==
    /\ pass[s].pc = "loop"
    /\ pass'[s] # pass[s]
    /\ OptUpperCase(CurrentEntry(s).koi_disposition) = "CANDIDATE"

\* the error texts of the failed outcomes of sendCandidateToInferAPI
GatewayErrors ==
    { "Timeout 10s exceeded", "HTTP 500", "HTTP non-200 response",
      "Connection error: No data found", "Connection error: network",
      "Save error", "Save error (CONFIRMED)" }

\* C11: sendCandidateToInferAPI never raises: when one of its external calls
\* fails (full-field fetch, POST timeout, transport error, non-200 answer,
\* insert) the pass receives a result with success false and the error
\* populated, so the iteration counts one infer_api_error with that text,
\* never a processing_error of the catch of the loop, stores nothing and
\* goes on.
C11_GatewayNeverRaises ==
    [][ \A s \in Slots :
          (DispatchesCandidate(s) /\ faults' # faults)
            => LET details == pass'[s].stats.errorDetails
                   detail  == details[Len(details)]
               IN  /\ Len(details) = Len(pass[s].stats.errorDetails) + 1
                   /\ detail.type = "infer_api_error"
                   /\ detail.kepoi_name = CurrentEntry(s).kepoi_name
                   /\ detail.error # Null
                   /\ detail.error \in GatewayErrors
                   /\ koi_objects' = koi_objects
                   /\ pass'[s].pc \in { "loop", "saveStats" } ]_vars

\* a pass has counted a classifier timeout for its first candidate and a
\* failed insert of a confirmed verdict for its second
C11_Witness ==
    \E s \in Slots :
      /\ pass[s].pc = "saveStats"
      /\ Len(pass[s].stats.errorDetails) = 2
      /\ pass[s].stats.errorDetails[1].error = "Timeout 10s exceeded"
      /\ pass[s].stats.errorDetails[2].error = "Save error (CONFIRMED)"
      /\ koi_objects = << >>

\* the error details invocation s has recorded for gateway failures
InferErrors(s) ==
    { i \in 1..Len(pass[s].stats.errorDetails) :
        pass[s].stats.errorDetails[i].type = "infer_api_error" }

\* C12 as stated: when the classifier does not answer in time,
\* sendCandidateToInferAPI has returned its failure within 10 seconds of its
\* invocation, the full-field fetch it performs first included: every
\* failure reported as "Timeout 10s exceeded" has a duration of at most
\* PostTimeout.
C12_Original ==
    \A s \in Slots : \A i \in InferErrors(s) :
      pass[s].stats.errorDetails[i].error = "Timeout 10s exceeded"
        => pass[s].stats.errorDetails[i].duration <= PostTimeout

\* the requests the inference endpoint received for kepoi_name from
\* invocation s
PostsFor(s, kepoi_name) ==
    { k \in 1..Len(pass[s].inferCalls) : pass[s].inferCalls[k] = kepoi_name }

\* C13: within one pass the inference endpoint receives at most one request
\* for each new entry, whatever the outcome of that request, and only for
\* entries the pass has gone over whose disposition is CANDIDATE.
C13_NoRetry ==
    \A s \in Slots :
      \A i \in 1..Len(pass[s].newKepOIEntries) :
        LET entry == pass[s].newKepOIEntries[i]
            posts == Cardinality(PostsFor(s, entry.kepoi_name))
        IN  /\ posts <= 1
            /\ posts = 1 => /\ i < pass[s].idx
                            /\ OptUpperCase(entry.koi_disposition) = "CANDIDATE"

\* the POST for the first candidate timed out, the pass went on to the
\* second candidate and is returning: one request each
C13_Witness ==
    \E s \in Slots :
      /\ pass[s].pc = "saveStats"
      /\ Len(pass[s].inferCalls) = 2
      /\ pass[s].inferCalls[1] # pass[s].inferCalls[2]
      /\ InferErrors(s) = { 1 }
      /\ pass[s].stats.errorDetails[1].error = "Timeout 10s exceeded"
      /\ pass[s].stats.errorDetails[1].duration = 15

\* the last function run on its own was sendCandidateToInferAPI and the
\* inference endpoint answered 200
Answered200 ==
    /\ call.op = "sendCandidateToInferAPI"
    /\ call.ext.fetch = "ok"
    /\ call.ext.post = "200"

\* the verdict the label of the last answer spells, in any case of letters
Verdict ==
    CASE call.ext.label \in { "CONFIRMED", "Confirmed" } -> "CONFIRMED"
      [] call.ext.label \in { "FALSE POSITIVE", "false positive" } -> "FALSE POSITIVE"
      [] OTHER -> "other"

\* C14 as stated: on a 200 answer a FalsePositive label gives the
\* falsePositive outcome, a Confirmed label the confirmed outcome, whatever
\* the case of the letters, and any other label the outcome other with no
\* write to the store.
C14_Original ==
    Answered200
      => /\ call.result.success
         /\ call.result.action =
              CASE Verdict = "FALSE POSITIVE" -> "saved_as_false_positive"
                [] Verdict = "CONFIRMED"      -> "saved_as_confirmed"
                [] OTHER                      -> "prediction_not_supported"
         /\ Verdict \notin { "FALSE POSITIVE", "CONFIRMED" }
              => koi_objects = call.store

\* C14 amended: on a 200 answer the label is matched whatever the case of
\* its letters; a FalsePositive or Confirmed label gives the outcome of that
\* name and one inserted document with that status when the insert succeeds,
\* and a failed outcome "Save error" with no document when the insert fails;
\* any other label, a missing one included, gives the outcome other with no
\* write to the store.
C14_LabelMatched ==
    Answered200
      => IF Verdict \in { "FALSE POSITIVE", "CONFIRMED" }
         THEN IF call.ext.saveOk
              THEN /\ call.result.success
                   /\ call.result.action =
                        IF Verdict = "CONFIRMED" THEN "saved_as_confirmed"
                        ELSE "saved_as_false_positive"
                   /\ Len(koi_objects) = Len(call.store) + 1
                   /\ SubSeq(koi_objects, 1, Len(call.store)) = call.store
                   /\ koi_objects[Len(koi_objects)].kepoi_name = call.kepoi_name
                   /\ koi_objects[Len(koi_objects)].koi_disposition = Verdict
                   /\ koi_objects[Len(koi_objects)].IS_AI
              ELSE /\ ~call.result.success
                   /\ call.result.error =
                        IF Verdict = "CONFIRMED" THEN "Save error (CONFIRMED)"
                        ELSE "Save error"
                   /\ koi_objects = call.store
         ELSE /\ call.result.success
              /\ call.result.action = "prediction_not_supported"
              /\ koi_objects = call.store

\* the endpoint answered "false positive" in lower case for the second row
\* and the gateway stored the row as FALSE POSITIVE
C14_Witness ==
    /\ Answered200
    /\ call.ext.label = "false positive"
    /\ call.result.action = "saved_as_false_positive"
    /\ Len(koi_objects) = 2
    /\ koi_objects[2].koi_disposition = "FALSE POSITIVE"

\* the last function run on its own was sendCandidateToInferAPI and it
\* stored the row with a verdict
VerdictStored ==
    /\ Answered200
    /\ Verdict \in { "FALSE POSITIVE", "CONFIRMED" }
    /\ call.ext.saveOk

\* C15: for every probability the answer carries, the confidence stored
\* with the record (confidence_score, and the copy inside ai_prediction) is
\* 1 - probability for a FalsePositive verdict and the probability for a
\* Confirmed verdict (percent); the probability is stored as it came.
C15_Confidence ==
    (VerdictStored /\ call.ext.probability # Missing)
      => LET doc == koi_objects[Len(koi_objects)]
             p   == call.ext.probability
         IN  /\ doc.confidence_score =
                  IF Verdict = "FALSE POSITIVE" THEN 100 - p ELSE p
             /\ doc.ai_prediction.confidence_score = doc.confidence_score
             /\ doc.ai_prediction.probability = p
             /\ doc.confidence_score \in 0..100

\* a FalsePositive verdict with probability 0.30 stored with confidence 0.70
C15_Witness ==
    /\ VerdictStored
    /\ Verdict = "FALSE POSITIVE"
    /\ call.ext.probability = 30
    /\ koi_objects[Len(koi_objects)].confidence_score = 70

\* the kepoi_name of the documents of the collection
Stored == { koi_objects[i].kepoi_name : i \in 1..Len(koi_objects) }

\* the step on which invocation s leaves Running, on either exit
Ends(s) == pass[s].pc \in { "saveStats", "saveErrorStats" } /\ pass'[s].pc = "idle"

C17_IdentityUnique ==
    \A i, j \in 1..Len(koi_objects) :
      koi_objects[i].kepoi_name = koi_objects[j].kepoi_name => i = j

\* a second pass has gone over a remote table whose two rows the first pass
\* stored, and has stored nothing again
C17_Witness ==
    \E s \in Slots :
      /\ pass[s].pc = "saveStats"
      /\ passes = 2
      /\ prevPass.ok
      /\ Len(prevPass.saved) = 2
      /\ Len(pass[s].nasaKepOINames) = 2
      /\ pass[s].newKepOIEntries = << >>
      /\ Len(koi_objects) = 2

\* C18: in every reachable state no two documents of koi_objects carry the
\* same kepler_name, whatever names the archive supplied for the rows it
\* confirmed itself and whatever names generateKeplerName produced.
C18_Original ==
    \A i, j \in 1..Len(koi_objects) :
      (/\ koi_objects[i].kepler_name # NoName
       /\ koi_objects[i].kepler_name = koi_objects[j].kepler_name) => i = j

\* the row the archive holds for a stored document
ArchiveRow(doc) == FetchCompleteKOIData(remote, doc.kepoi_name)

IsConfirmed(doc) == OptUpperCase(doc.koi_disposition) = "CONFIRMED"

StoreBefore(i) == SubSeq(koi_objects, 1, i - 1)

\* stored directly from a row the archive lists as CONFIRMED
DirectConfirmed(doc) == ~doc.IS_AI /\ IsConfirmed(doc)

\* C20 as stated: a new row the archive lists as CONFIRMED is stored by the
\* pass with the name generateKeplerName produces for it over the store as it
\* was (no named member of its group: the store's maximum number plus one,
\* letter b).
C20_Original ==
    \A i \in 1..Len(koi_objects) :
      DirectConfirmed(koi_objects[i])
        => koi_objects[i].kepler_name
             = GenerateKeplerName(koi_objects[i].kepoi_name, StoreBefore(i),
                                  TRUE, TRUE)

\* C20 amended: a new row the archive lists as CONFIRMED is stored by the
\* pass as fetched, with the kepler_name the archive gives it (or none);
\* generateKeplerName names only the candidates the endpoint confirms.
C20_DirectKeepsArchiveName ==
    \A i \in 1..Len(koi_objects) :
      LET doc == koi_objects[i]
      IN  /\ DirectConfirmed(doc) => doc.kepler_name = ArchiveRow(doc).kepler_name
          /\ (doc.IS_AI /\ IsConfirmed(doc))
               => doc.kepler_name
                    = GenerateKeplerName(doc.kepoi_name, StoreBefore(i), TRUE, TRUE)

\* a confirmed row was stored with the archive's name although the allocator
\* would have produced another one at that point
C20_Witness ==
    \E i \in 1..Len(koi_objects) :
      /\ DirectConfirmed(koi_objects[i])
      /\ koi_objects[i].kepler_name = KeplerName(1, "b")
      /\ GenerateKeplerName(koi_objects[i].kepoi_name, StoreBefore(i), TRUE, TRUE)
           # KeplerName(1, "b")

\* the documents of the group stored before the behaviour, and those the
\* endpoint confirmed since, in the order they were inserted
GroupBefore ==
    SelectSeq(koi_objects, LAMBDA r : r.kepoi_name[1] = GroupBase /\ ~r.IS_AI)

GroupConfirmed ==
    SelectSeq(koi_objects, LAMBDA r : r.kepoi_name[1] = GroupBase /\ r.IS_AI)

\* no query of the allocator failed and none of its runs raised so far
QueriesAnswered == faults = 0

\* C21: when k <= 25 candidates of a group that had no named member are
\* confirmed by the endpoint one after another (the allocator's queries being
\* answered), they all get the number of the first one and the letters b, c,
\* d, ... in that order without a gap; the second gets "<N> c".
C21_LettersInOrder ==
    (/\ QueriesAnswered
     /\ \A j \in 1..Len(GroupBefore) : GroupBefore[j].kepler_name = NoName
     /\ Len(GroupConfirmed) <= Len(Alphabet))
      => \A j \in 1..Len(GroupConfirmed) :
           GroupConfirmed[j].kepler_name
             = KeplerName(ExtractKeplerNumber(GroupConfirmed[1].kepler_name),
                          Alphabet[j])

\* 25 candidates of a group without named member were confirmed over a store
\* whose largest number is 1: the last one is Kepler-2 z
C21_Witness ==
    /\ QueriesAnswered
    /\ GroupBefore = << >>
    /\ Len(GroupConfirmed) = 25
    /\ GroupConfirmed[2].kepler_name = KeplerName(2, "c")
    /\ GroupConfirmed[25].kepler_name = KeplerName(2, "z")

\* generateKeplerName has just run with its queries answered and without an
\* exception
Allocated ==
    /\ call.op = "generateKeplerName"
    /\ call.simOk /\ call.lastOk /\ ~call.raised

\* the names carried by the documents of the group of kepoi_name in store
GroupNames(store, kepoi_name) ==
    { store[i].kepler_name :
        i \in { j \in 1..Len(store) :
                  /\ store[j].kepoi_name[1] = kepoi_name[1]
                  /\ store[j].kepler_name # NoName } }

\* the largest number of a name in store, 0 when no document is named
MaxLabel(store) ==
    LET labels == { store[i].kepler_name[1] :
                      i \in { j \in 1..Len(store) : store[j].kepler_name # NoName } }
    IN  IF labels = {} THEN 0
        ELSE CHOOSE x \in labels : \A y \in labels : y <= x

\* C22: when no document of the group of the identity carries a name,
\* generateKeplerName returns the largest number of any name in the whole
\* collection plus one with letter b (number 1 when no document is named).
C22_NewLabel ==
    (Allocated /\ GroupNames(call.store, call.kepoi_name) = {})
      => call.name = KeplerName(MaxLabel(call.store) + 1, "b")

\* the store held Kepler-5 c and then Kepler-3 b of another base and an
\* unnamed member of the group: the candidate got Kepler-6 b
C22_Witness ==
    /\ Allocated
    /\ GroupNames(call.store, call.kepoi_name) = {}
    /\ Len(call.store) = 3
    /\ call.store[2].kepler_name = KeplerName(3, "b")
    /\ call.name = KeplerName(6, "b")

\* the positions in store of the members of the group named Kepler-<number>
NamedMembers(store, kepoi_name, number) ==
    { j \in 1..Len(store) :
        /\ store[j].kepoi_name[1] = kepoi_name[1]
        /\ store[j].kepler_name # NoName
        /\ store[j].kepler_name[1] = number }

\* the letters the group uses under Kepler-<number>
LettersUsed(store, kepoi_name, number) ==
    { store[j].kepler_name[2] : j \in NamedMembers(store, kepoi_name, number) }

\* C23: when documents of the group of the identity carry names,
\* generateKeplerName takes the number with the most named members among
\* them and returns it with the first letter of b, c, ..., z the group does
\* not use yet under that number.
C23_MostPopulatedLabel ==
    (Allocated /\ GroupNames(call.store, call.kepoi_name) # {})
      => LET labels == { n[1] : n \in GroupNames(call.store, call.kepoi_name) }
             number == call.name[1]
             used   == LettersUsed(call.store, call.kepoi_name, number)
         IN  /\ number \in labels
             /\ \A m \in labels :
                  Cardinality(NamedMembers(call.store, call.kepoi_name, m))
                    <= Cardinality(NamedMembers(call.store, call.kepoi_name, number))
             /\ (\E i \in 1..Len(Alphabet) : Alphabet[i] \notin used)
                  => \E i \in 1..Len(Alphabet) :
                       /\ call.name[2] = Alphabet[i]
                       /\ Alphabet[i] \notin used
                       /\ \A j \in 1..(i - 1) : Alphabet[j] \in used

\* the group held Kepler-2 b, Kepler-4 b and Kepler-4 c: the candidate got
\* Kepler-4 d
C23_Witness ==
    /\ Allocated
    /\ GroupNames(call.store, call.kepoi_name)
         = { KeplerName(2, "b"), KeplerName(4, "b"), KeplerName(4, "c") }
    /\ call.name = KeplerName(4, "d")

\* C24: when the group already uses all 25 letters b..z under the number
\* generateKeplerName takes, the function still returns a name: that number
\* with the letter z.
C24_ExhaustedGivesZ ==
    (/\ Allocated
     /\ GroupNames(call.store, call.kepoi_name) # {}
     /\ SeqRange(Alphabet)
          \subseteq LettersUsed(call.store, call.kepoi_name, call.name[1]))
      => /\ call.name[2] = "z"
         /\ call.name \in GroupNames(call.store, call.kepoi_name)
         /\ koi_objects[Len(koi_objects)].kepler_name = call.name

\* the group held Kepler-2 b ... Kepler-2 z: the candidate was stored as a
\* second Kepler-2 z
C24_Witness ==
    /\ Allocated
    /\ { call.store[j].kepler_name :
           j \in NamedMembers(call.store, call.kepoi_name, 2) }
         = SeqRange(Letters(2, 25))
    /\ call.name = KeplerName(2, "z")
    /\ koi_objects[Len(koi_objects)].kepler_name = KeplerName(2, "z")

\* C25: on any internal error of generateKeplerName, a failed query of the
\* collection included, the function returns the name derived from the
\* clock, and that name differs from every name already in the collection.
C25_Original ==
    (/\ call.op = "generateKeplerName"
     /\ (~call.simOk \/ ~call.lastOk \/ call.raised))
      => /\ call.name = FallbackName(call.now)
         /\ \A j \in 1..Len(call.store) : call.store[j].kepler_name # call.name

\* the two states of the scheduler: no task referenced and none scheduled,
\* or one task referenced and that task alone scheduled
Stopped == syncTask = Null /\ armed = << >>

Active == syncTask # Null /\ armed = << syncTask >>

\* C26: the scheduler is always Stopped or Active with a single task
\* scheduled; start arms the weekly task from Stopped and changes nothing
\* when Active, stop disarms and changes nothing when Stopped, restart and
\* setCustomSchedule end Active with the new task alone, whatever the state
\* before.
C26_SchedulerStates ==
    /\ [](Stopped \/ Active)
    /\ [][ /\ StartWeeklySync
              => IF Stopped THEN Active' /\ syncTask' = WeeklyPattern
                 ELSE UNCHANGED << syncTask, armed, nextRun >>
           /\ StopWeeklySync
              => /\ Stopped'
                 /\ Stopped => UNCHANGED << syncTask, armed, nextRun >>
           /\ RestartWeeklySync => Active' /\ syncTask' = WeeklyPattern
           /\ SetCustomSchedule => Active' /\ syncTask' = CustomPattern ]_vars

\* a pass is in flight and the schedule has been replaced by the custom one
\* meanwhile
C26_Witness ==
    /\ isRunning
    /\ lastRun = 1
    /\ response = NoResponse
    /\ Active
    /\ syncTask = CustomPattern

\* the next time the pattern fires
NextFire(pattern) ==
    CASE pattern = WeeklyPattern -> "nextSunday02:00"
      [] pattern = CustomPattern -> "nextEvenHour"
      [] OTHER -> Null

\* C27: after any sequence of start, stop, restart and setCustomSchedule,
\* while a task is armed the nextRun and the pattern getStatus reports are
\* those of the armed pattern, a pattern installed by setCustomSchedule
\* included.
C27_Original ==
    syncTask # Null
      => /\ GetStatus.nextRun = NextFire(syncTask)
         /\ GetStatus.cronPattern = syncTask

\* the counters of stats that moved on the step of invocation s
Moved(s) ==
    { f \in { "confirmed", "falsePositive", "candidatesSavedAsConfirmed",
              "candidatesSavedAsFalsePositive", "candidatesOtherPrediction",
              "errors" } :
        pass'[s].stats[f] # pass[s].stats[f] }

MovedByOne(s) ==
    \A f \in Moved(s) : pass'[s].stats[f] = pass[s].stats[f] + 1

\* C28: a candidate for which sendCandidateToInferAPI acts on a verdict is
\* stored exactly once, with the disposition of the verdict, IS_AI true and
\* the prediction filled in (and the name generateKeplerName gives when
\* CONFIRMED), and the pass adds one to the counter of the gateway and to the
\* global counter of that disposition; a candidate without such a verdict
\* moves neither.
C28_VerdictStoredAndCounted ==
    [][ \A s \in Slots :
          DispatchesCandidate(s)
            => LET kepoi_name == CurrentEntry(s).kepoi_name
               IN  /\ MovedByOne(s)
                   /\ IF koi_objects' # koi_objects
                      THEN LET doc == koi_objects'[Len(koi_objects')]
                           IN  /\ koi_objects' = Append(koi_objects, doc)
                               /\ kepoi_name \notin Stored
                               /\ doc.kepoi_name = kepoi_name
                               /\ doc.IS_AI
                               /\ doc.ai_prediction.confidence_score
                                    = doc.confidence_score
                               /\ \/ /\ doc.koi_disposition = "CONFIRMED"
                                     /\ doc.kepler_name
                                          = GenerateKeplerName(kepoi_name,
                                                koi_objects, TRUE, TRUE)
                                     /\ doc.kepler_name # NoName
                                     /\ Moved(s) = { "candidatesSavedAsConfirmed",
                                                     "confirmed" }
                                  \/ /\ doc.koi_disposition = "FALSE POSITIVE"
                                     /\ doc.kepler_name = NoName
                                     /\ Moved(s) = { "candidatesSavedAsFalsePositive",
                                                     "falsePositive" }
                      ELSE Moved(s) \in { { "candidatesOtherPrediction" },
                                          { "errors" } } ]_vars

\* the endpoint confirmed the first candidate and rejected the second as a
\* false positive: both are stored and the four counters stand at one
C28_Witness ==
    \E s \in Slots :
      /\ pass[s].pc = "saveStats"
      /\ pass[s].stats.candidatesSavedAsConfirmed = 1
      /\ pass[s].stats.confirmed = 1
      /\ pass[s].stats.candidatesSavedAsFalsePositive = 1
      /\ pass[s].stats.falsePositive = 1
      /\ Len(koi_objects) = 2
      /\ koi_objects[1].IS_AI /\ koi_objects[1].koi_disposition = "CONFIRMED"
      /\ koi_objects[2].IS_AI /\ koi_objects[2].koi_disposition = "FALSE POSITIVE"

\* every counter of stats that moved on the step of invocation s
MovedCounters(s) ==
    { f \in { "confirmed", "falsePositive", "candidates", "candidatesSent",
              "candidatesClassifiedByAI", "candidatesSavedAsConfirmed",
              "candidatesSavedAsFalsePositive", "candidatesOtherPrediction",
              "errors" } :
        pass'[s].stats[f] # pass[s].stats[f] }

\* invocation s goes over its current entry
Processes(s) == pass[s].pc = "loop" /\ pass'[s] # pass[s]

\* C29: sendCandidateToInferAPI is called only for new entries the archive
\* lists as CANDIDATE; an entry listed as CONFIRMED or FALSE POSITIVE is
\* stored as the row the archive serves, without IS_AI, and moves the counter
\* of its disposition by one and no other; it is stored whenever its fetch
\* and its insert succeed.
C29_OnlyCandidatesDispatched ==
    [][ \A s \in Slots :
          Processes(s)
            => LET entry == CurrentEntry(s)
                   disposition == OptUpperCase(entry.koi_disposition)
               IN  /\ (\/ pass'[s].inferCalls # pass[s].inferCalls
                       \/ "candidates" \in MovedCounters(s))
                        => /\ disposition = "CANDIDATE"
                           /\ entry.kepoi_name \notin pass[s].existingAtStart
                   /\ disposition \in { "CONFIRMED", "FALSE POSITIVE" }
                        => /\ pass'[s].inferCalls = pass[s].inferCalls
                           /\ faults' = faults => koi_objects' # koi_objects
                           /\ IF koi_objects' # koi_objects
                              THEN /\ koi_objects' =
                                        Append(koi_objects,
                                               FetchCompleteKOIData(remote,
                                                   entry.kepoi_name))
                                   /\ ~koi_objects'[Len(koi_objects')].IS_AI
                                   /\ MovedCounters(s) =
                                        { IF disposition = "CONFIRMED"
                                          THEN "confirmed" ELSE "falsePositive" }
                                   /\ MovedByOne(s)
                              ELSE MovedCounters(s) = { "errors" } ]_vars

\* a pass stored a confirmed row and a false positive row of the archive as
\* they are and called the endpoint for neither
C29_Witness ==
    \E s \in Slots :
      /\ pass[s].pc = "saveStats"
      /\ pass[s].inferCalls = << >>
      /\ pass[s].stats.confirmed = 1
      /\ pass[s].stats.falsePositive = 1
      /\ pass[s].stats.candidates = 0
      /\ Len(koi_objects) = 2
      /\ \A i \in 1..2 : koi_objects[i] = remote[i]

\* the endpoint answered the POST for the current entry of invocation s with
\* a label that is no verdict: the call was made, nothing failed and nothing
\* was stored
AnsweredOther(s) ==
    /\ DispatchesCandidate(s)
    /\ Len(pass'[s].inferCalls) = Len(pass[s].inferCalls) + 1
    /\ faults' = faults
    /\ koi_objects' = koi_objects

\* C30: when the result of sendCandidateToInferAPI for a candidate is
\* prediction_not_supported, the candidate is not stored, the pass adds one
\* to candidatesOtherPrediction, and leaves errors and errorDetails alone.
C30_OtherCountedNotStored ==
    [][ \A s \in Slots :
          AnsweredOther(s)
            => /\ CurrentEntry(s).kepoi_name \notin
                    { koi_objects'[i].kepoi_name : i \in 1..Len(koi_objects') }
               /\ pass'[s].stats.candidatesOtherPrediction
                    = pass[s].stats.candidatesOtherPrediction + 1
               /\ pass'[s].stats.errors = pass[s].stats.errors
               /\ pass'[s].stats.errorDetails = pass[s].stats.errorDetails
               /\ pass'[s].stats.confirmed = pass[s].stats.confirmed
               /\ pass'[s].stats.falsePositive = pass[s].stats.falsePositive ]_vars

\* a pass over a single candidate for which the endpoint answered with
\* another label: one call, nothing stored, no error
C30_Witness ==
    \E s \in Slots :
      /\ pass[s].pc = "saveStats"
      /\ Len(pass[s].inferCalls) = 1
      /\ pass[s].stats.candidatesOtherPrediction = 1
      /\ pass[s].stats.errors = 0
      /\ pass[s].stats.errorDetails = << >>
      /\ pass[s].saved = << >>
      /\ faults = 0

\* the endpoint answered 200 to the last sendCandidateToInferAPI and the
\* answer carries no prediction
AnsweredUnlabelled ==
    /\ Answered200
    /\ call.ext.label = Null

\* C31: a 200 answer whose prediction is missing is a failure of the
\* gateway: sendCandidateToInferAPI stores nothing and returns success false
\* with an error text, the result for which the loop of the pass adds one to
\* errors and pushes an infer_api_error detail for the kepoi_name.
C31_Original ==
    AnsweredUnlabelled
      => /\ koi_objects = call.store
         /\ ~call.result.success
         /\ call.result.error # Null
         /\ InferErrorDetail(call.kepoi_name, call.result).error \in GatewayErrors

\* the dispositions the switch of the pass has a case for
KnownDispositions == { "CONFIRMED", "FALSE POSITIVE", "CANDIDATE" }

\* C32: a new entry whose koi_disposition, upper-cased, is none of CONFIRMED,
\* FALSE POSITIVE, CANDIDATE (a missing one included) is not stored and not
\* sent to sendCandidateToInferAPI; the pass adds one to errors, pushes one
\* unknown_disposition detail for its kepoi_name, moves no other counter and
\* goes on with the next entry.
C32_UnknownDisposition ==
    [][ \A s \in Slots :
          (Processes(s)
             /\ OptUpperCase(CurrentEntry(s).koi_disposition) \notin KnownDispositions)
            => /\ koi_objects' = koi_objects
               /\ pass'[s].inferCalls = pass[s].inferCalls
               /\ MovedCounters(s) = { "errors" }
               /\ pass'[s].stats.errors = pass[s].stats.errors + 1
               /\ pass'[s].stats.errorDetails =
                    Append(pass[s].stats.errorDetails,
                           ErrorDetail(CurrentEntry(s).kepoi_name,
                                       "unknown_disposition", "Unknown status"))
               /\ pass'[s].idx = pass[s].idx + 1
               /\ pass'[s].pc = IF pass[s].idx = Len(pass[s].newKepOIEntries)
                                THEN "saveStats" ELSE "loop" ]_vars

\* a pass went over a row with an unrecognised status and then over a row
\* without status: at its end it holds two errors with their details and has
\* stored and sent nothing
C32_Witness ==
    \E s \in Slots :
      /\ pass[s].pc = "saveStats"
      /\ Len(pass[s].newKepOIEntries) = 2
      /\ pass[s].newKepOIEntries[1].koi_disposition = "NOT DISPOSITIONED"
      /\ pass[s].newKepOIEntries[2].koi_disposition = Null
      /\ pass[s].stats.errors = 2
      /\ Len(pass[s].stats.errorDetails) = 2
      /\ \A i \in 1..2 : pass[s].stats.errorDetails[i].type = "unknown_disposition"
      /\ pass[s].inferCalls = << >>
      /\ koi_objects = << >>

\* the iterations of the loop that have begun and not reached their end
OpenIterations ==
    { i \in DOMAIN call.iter : call.iter[i].step \notin { "pending", "done" } }

\* the iterations whose POST to the inference endpoint is in flight
PostsInFlight == { i \in DOMAIN call.iter : call.iter[i].step = "axios.post" }

\* the position of a stored document among the new entries of the pass
EntryIndex(doc) ==
    CHOOSE i \in DOMAIN pass[LoopSlot].newKepOIEntries :
      pass[LoopSlot].newKepOIEntries[i].kepoi_name = doc.kepoi_name

\* C33: within a pass the entries are processed strictly one after another:
\* at most one POST to the inference endpoint is in flight, at most one
\* iteration is between its begin and its end, an iteration has begun only
\* when every earlier one has ended (its fetch, POST, generateKeplerName and
\* insert have returned), and the documents are stored in the order of the
\* entries.
C33_Sequential ==
    /\ Cardinality(PostsInFlight) <= 1
    /\ Cardinality(OpenIterations) <= 1
    /\ \A i \in DOMAIN call.iter :
         call.iter[i].step # "pending"
           => \A j \in 1..(i - 1) : call.iter[j].step = "done"
    /\ \A a, b \in DOMAIN koi_objects :
         a < b => EntryIndex(koi_objects[a]) < EntryIndex(koi_objects[b])
    /\ Len(pass[LoopSlot].inferCalls)
         <= Cardinality({ i \in DOMAIN call.iter : call.iter[i].step # "pending" })

\* the first candidate was confirmed by the endpoint, named and stored, and
\* only then the POST for the second candidate went out and is in flight
C33_Witness ==
    /\ call.op = "synchronizeKOIData"
    /\ Len(call.iter) = 2
    /\ call.iter[1].step = "done"
    /\ call.iter[2].step = "axios.post"
    /\ Len(koi_objects) = 1
    /\ koi_objects[1].IS_AI
    /\ koi_objects[1].koi_disposition = "CONFIRMED"
    /\ koi_objects[1].kepler_name = KeplerName(1, "b")
    /\ pass[LoopSlot].inferCalls
         = << pass[LoopSlot].newKepOIEntries[1].kepoi_name,
              pass[LoopSlot].newKepOIEntries[2].kepoi_name >>

\* the three equations between the counters of a stats object
Consistent(stats) ==
    /\ stats.confirmed + stats.falsePositive + stats.candidatesOtherPrediction
         + stats.errors = stats.newKOIs
    /\ stats.errors = Len(stats.errorDetails)
    /\ stats.candidatesSent
         = stats.candidatesSavedAsFalsePositive
             + stats.candidatesSavedAsConfirmed + stats.candidatesOtherPrediction

\* the records of sync_logs written by a pass that returned its stats
ReturnedStats ==
    { sync_logs[i] : i \in { j \in 1..Len(sync_logs) :
                              "newKOIs" \in DOMAIN sync_logs[j] } }

\* C34: the stats a pass returns are consistent: confirmed + falsePositive
\* + candidatesOtherPrediction + errors = newKOIs, errors is the length of
\* errorDetails, and candidatesSent = candidatesSavedAsFalsePositive
\* + candidatesSavedAsConfirmed + candidatesOtherPrediction; so are the
\* stats written to sync_logs.
C34_CountersConsistent ==
    /\ \A s \in Slots : pass[s].pc = "saveStats" => Consistent(pass[s].stats)
    /\ \A stats \in ReturnedStats : Consistent(stats)

\* a pass over two new entries is about to return its stats: one candidate
\* stored as CONFIRMED by the gateway, one entry failed
C34_Witness ==
    \E s \in Slots :
      /\ pass[s].pc = "saveStats"
      /\ pass[s].stats.newKOIs = 2
      /\ pass[s].stats.candidatesSent = 1
      /\ pass[s].stats.candidatesSavedAsConfirmed = 1
      /\ pass[s].stats.confirmed = 1
      /\ pass[s].stats.errors = 1
      /\ Len(pass[s].stats.errorDetails) = 1

\* C35: every document a pass stores has koi_disposition CONFIRMED or
\* FALSE POSITIVE, never CANDIDATE, also when the archive changes the
\* disposition of a row between the fetch of the names and the full-field
\* fetch of the same pass.
C35_Original ==
    \A i \in DOMAIN koi_objects :
      OptUpperCase(koi_objects[i].koi_disposition) \in { "CONFIRMED", "FALSE POSITIVE" }

\* C36: a pass only inserts: every step leaves each stored document as it
\* is (disposition, kepler_name and fields) and in place, and a document it
\* adds is for a kepoi_name not stored before, also when the archive has
\* revised the disposition of a stored kepoi_name.
C36_InsertOnly ==
    [][ /\ Len(koi_objects') >= Len(koi_objects)
        /\ \A i \in DOMAIN koi_objects : koi_objects'[i] = koi_objects[i]
        /\ \A i \in (DOMAIN koi_objects') \ (DOMAIN koi_objects) :
             koi_objects'[i].kepoi_name \notin Stored ]_vars

\* the first pass stored K00001.01 as FALSE POSITIVE, the archive then
\* confirmed it as Kepler-1 b, and a second pass that fetched the revised
\* status has ended: the stored document is still the FALSE POSITIVE one
C36_Witness ==
    /\ passes = 2
    /\ ~isRunning
    /\ prevPass.ok
    /\ Len(prevPass.remote) = 1
    /\ prevPass.remote[1].koi_disposition = "CONFIRMED"
    /\ prevPass.new = << >>
    /\ remote[1].kepler_name = KeplerName(1, "b")
    /\ Len(koi_objects) = 1
    /\ koi_objects[1].kepoi_name = remote[1].kepoi_name
    /\ koi_objects[1].koi_disposition = "FALSE POSITIVE"
    /\ koi_objects[1].kepler_name = NoName

\* C37: in every state reached by scheduler operations and passes the
\* nextRun that getStatus reports is null exactly when the scheduler is
\* stopped (no task armed) and a date exactly when a task is armed.
C37_Original ==
    /\ Stopped <=> GetStatus.nextRun = Null
    /\ Active <=> GetStatus.nextRun # Null

\* the step is a stop, restart or configure that changed the schedule
ScheduleChanges == syncTask' # syncTask \/ armed' # armed

\* the step ends the pass of invocation s
PassEnds(s) ==
    /\ pass[s].pc \in { "saveStats", "saveErrorStats" }
    /\ pass'[s].pc = "idle"

\* C38: stop, restart and configure issued while a pass is Running leave the
\* pass, its counters, the collections and the flag isRunning as they are;
\* the flag is cleared only by the step that ends the pass, the step that
\* writes its record to sync_logs (when that insert is answered), and until
\* then a manual trigger is rejected with the conflict error and starts
\* nothing.
C38_ScheduleLeavesPass ==
    [][ isRunning
          => /\ ScheduleChanges
                  => /\ isRunning'
                     /\ pass' = pass
                     /\ lastRun' = lastRun
                     /\ koi_objects' = koi_objects
                     /\ sync_logs' = sync_logs
             /\ ~isRunning'
                  => \E s \in Slots :
                       /\ PassEnds(s)
                       /\ faults' = faults
                            => Len(sync_logs') = Len(sync_logs) + 1
             /\ Answered("manual")
                  => /\ response'.result = "throw"
                     /\ response'.error = ConflictMessage
                     /\ pass' = pass
                     /\ isRunning' ]_vars

\* the only pass so far is still in flight, at the write of its record: a
\* cron trigger fired during it and was skipped, and the scheduler has been
\* stopped since, so the stop was issued while the pass was Running
C38_Witness ==
    /\ passes = 1
    /\ isRunning
    /\ \E s \in Slots : pass[s].pc = "saveStats"
    /\ response.kind = "cron"
    /\ Stopped

\* the documents stored for kepoi_name
DocsOf(kepoi_name) ==
    { i \in DOMAIN koi_objects : koi_objects[i].kepoi_name = kepoi_name }

\* the archive lists kepoi_name as a candidate
ListedCandidate(kepoi_name) ==
    \E i \in DOMAIN remote :
      /\ remote[i].kepoi_name = kepoi_name
      /\ OptUpperCase(remote[i].koi_disposition) = "CANDIDATE"

\* C39: a kepoi_name the archive keeps listing as CANDIDATE is stored in
\* the end once the endpoint has settled (it answers with a verdict, and the
\* fetches and the inserts succeed) and a pass can still be triggered; it
\* is never stored twice, and once stored it stays stored.
C39_EventuallyStoredOnce ==
    /\ (call.settled /\ passes < MaxPasses)
         ~> (\A n \in 1..MaxRemote :
               ListedCandidate(Catalogue[n])
                 => Cardinality(DocsOf(Catalogue[n])) = 1)
    /\ [](\A n \in 1..MaxRemote : Cardinality(DocsOf(Catalogue[n])) <= 1)
    /\ [][ \A n \in 1..MaxRemote :
             DocsOf(Catalogue[n]) \subseteq DocsOf(Catalogue[n])' ]_vars

\* the first pass left both candidates unstored before the endpoint settled
\* (it has recorded a failure for one); the second pass stored them
C39_Witness ==
    /\ call.op = "endpoint"
    /\ call.settled
    /\ passes = 2
    /\ ~isRunning
    /\ Len(sync_logs) = 2
    /\ \A i \in 1..2 : "newKOIs" \in DOMAIN sync_logs[i]
    /\ sync_logs[1].newKOIs = 2
    /\ sync_logs[1].errors >= 1
    /\ sync_logs[1].confirmed + sync_logs[1].falsePositive = 0
    /\ sync_logs[2].candidatesSent = 2
    /\ Len(koi_objects) = 2
    /\ \A i \in 1..2 : koi_objects[i].IS_AI

====
